---------------------------- MODULE Spec2Model ----------------------------
(***************************************************************************)
(* A model of the timesheet application: the Saturday-anchored calendar    *)
(* helpers (utils.py), the TimeEntry hour properties (models.py), the      *)
(* time-entry and allocation store (storage.py), holiday population, and   *)
(* the day and allocation editors with their completion handlers           *)
(* (screens.py, app.py).                                                   *)
(*                                                                         *)
(* Conventions.  A date is its proleptic Gregorian ordinal (Python's       *)
(* date.toordinal()).  A time of day is a record [hour, minute].  A        *)
(* duration (timedelta) is a whole number of seconds.  A Decimal with two  *)
(* places is its number of hundredths; the Decimal of an allocation also   *)
(* records whether its text had digits after the point, which str() gives  *)
(* back.  An optional value is <<>> (None) or <<v>>.  The text of a time   *)
(* or number field is the sequence of the parts that split(":") yields,    *)
(* each part a token that records what int(), float() and Decimal() make   *)
(* of it; the empty sequence is the empty text.  Every other str (ticket   *)
(* ids, descriptions, comments, search texts, the adjustment type typed    *)
(* into the day editor) is the sequence of its Unicode code points; the    *)
(* adjust_type of a stored entry is written as the string of its letter.   *)
(***************************************************************************)
EXTENDS Integers, Sequences, FiniteSets, TLC

VARIABLES
    cal_call,       \* the last call of a calendar helper, with its result
    hrs_entry,      \* the TimeEntry whose hour properties are read
    hrs_call,       \* the last read of a TimeEntry hour property
    config,         \* table config: the set of its rows (key, value)
    time_entries,   \* table time_entries: ISO date -> row
    st_call,        \* the last call of the storage API, with its result
    tickets,        \* table tickets: ticket id -> row
    ticket_allocations, \* table ticket_allocations: <<ticket id, ISO date>> -> row
    app,            \* the attributes of the running TimesheetApp, None before it runs
    screen,         \* the modal screen on top of the screen stack, None without one
    notice,         \* the last notification shown to the user (App.notify)
    crashed,        \* TRUE once a handler has raised an exception nothing catches
    ui_event        \* the last handler or method of the application that ran

pureVars == <<cal_call, hrs_entry, hrs_call>>

appVars == <<app, screen, notice, crashed, ui_event>>

vars == <<cal_call, hrs_entry, hrs_call, config, time_entries, st_call,
          tickets, ticket_allocations, app, screen, notice, crashed, ui_event>>

----------------------------------------------------------------------------
(* Bounds of the model *)

\* first year of the dates the calendar helpers are called with
FirstYear == 2024

\* number of consecutive years the calendar helpers are called with
NumYears == 3

Years == FirstYear .. (FirstYear + NumYears - 1)

Months == 1 .. 12

----------------------------------------------------------------------------
(* Optional values *)

None == <<>>

Some(v) == <<v>>

IsSome(x) == x # <<>>

Val(x) == x[1]

Abs(n) == IF n < 0 THEN -n ELSE n

----------------------------------------------------------------------------
(* Text: a str is the sequence of its Unicode code points *)

\* the characters U+0020 to U+005F and U+0061 to U+007E, in the order of
\* their code points
CharsFromSpace ==
    <<" ", "!", "\"", "#", "$", "%", "&", "'", "(", ")", "*", "+",
      ",", "-", ".", "/", "0", "1", "2", "3", "4", "5", "6", "7",
      "8", "9", ":", ";", "<", "=", ">", "?", "@", "A", "B", "C",
      "D", "E", "F", "G", "H", "I", "J", "K", "L", "M", "N", "O",
      "P", "Q", "R", "S", "T", "U", "V", "W", "X", "Y", "Z", "[",
      "\\", "]", "^", "_">>

CharsFromSmallA ==
    <<"a", "b", "c", "d", "e", "f", "g", "h", "i", "j", "k", "l",
      "m", "n", "o", "p", "q", "r", "s", "t", "u", "v", "w", "x",
      "y", "z", "{", "|", "}", "~">>

\* ord(c) of one of these characters
ord(c) ==
    IF \E i \in DOMAIN CharsFromSpace : CharsFromSpace[i] = c
    THEN 31 + CHOOSE i \in DOMAIN CharsFromSpace : CharsFromSpace[i] = c
    ELSE 96 + CHOOSE i \in DOMAIN CharsFromSmallA : CharsFromSmallA[i] = c

\* the str a literal of the source denotes
RECURSIVE Text(_)
Text(s) ==
    IF s = "" THEN <<>>
    ELSE <<ord(SubSeq(s, 1, 1))>> \o Text(SubSeq(s, 2, Len(s)))

\* the empty str
EmptyText == <<>>

\* the code points above U+007F that str.upper() changes, each with the
\* code points it becomes (Unicode full case mapping)
UpperCaseTable ==
    <<<<181, <<924>>>>, <<223, <<83, 83>>>>, <<224, <<192>>>>, <<225, <<193>>>>,
      <<226, <<194>>>>, <<227, <<195>>>>, <<228, <<196>>>>, <<229, <<197>>>>,
      <<230, <<198>>>>, <<231, <<199>>>>, <<232, <<200>>>>, <<233, <<201>>>>,
      <<234, <<202>>>>, <<235, <<203>>>>, <<236, <<204>>>>, <<237, <<205>>>>,
      <<238, <<206>>>>, <<239, <<207>>>>, <<240, <<208>>>>, <<241, <<209>>>>,
      <<242, <<210>>>>, <<243, <<211>>>>, <<244, <<212>>>>, <<245, <<213>>>>,
      <<246, <<214>>>>, <<248, <<216>>>>, <<249, <<217>>>>, <<250, <<218>>>>,
      <<251, <<219>>>>, <<252, <<220>>>>, <<253, <<221>>>>, <<254, <<222>>>>,
      <<255, <<376>>>>, <<257, <<256>>>>, <<259, <<258>>>>, <<261, <<260>>>>,
      <<263, <<262>>>>, <<265, <<264>>>>, <<267, <<266>>>>, <<269, <<268>>>>,
      <<271, <<270>>>>, <<273, <<272>>>>, <<275, <<274>>>>, <<277, <<276>>>>,
      <<279, <<278>>>>, <<281, <<280>>>>, <<283, <<282>>>>, <<285, <<284>>>>,
      <<287, <<286>>>>, <<289, <<288>>>>, <<291, <<290>>>>, <<293, <<292>>>>,
      <<295, <<294>>>>, <<297, <<296>>>>, <<299, <<298>>>>, <<301, <<300>>>>,
      <<303, <<302>>>>, <<305, <<73>>>>, <<307, <<306>>>>, <<309, <<308>>>>,
      <<311, <<310>>>>, <<314, <<313>>>>, <<316, <<315>>>>, <<318, <<317>>>>,
      <<320, <<319>>>>, <<322, <<321>>>>, <<324, <<323>>>>, <<326, <<325>>>>,
      <<328, <<327>>>>, <<329, <<700, 78>>>>, <<331, <<330>>>>, <<333, <<332>>>>,
      <<335, <<334>>>>, <<337, <<336>>>>, <<339, <<338>>>>, <<341, <<340>>>>,
      <<343, <<342>>>>, <<345, <<344>>>>, <<347, <<346>>>>, <<349, <<348>>>>,
      <<351, <<350>>>>, <<353, <<352>>>>, <<355, <<354>>>>, <<357, <<356>>>>,
      <<359, <<358>>>>, <<361, <<360>>>>, <<363, <<362>>>>, <<365, <<364>>>>,
      <<367, <<366>>>>, <<369, <<368>>>>, <<371, <<370>>>>, <<373, <<372>>>>,
      <<375, <<374>>>>, <<378, <<377>>>>, <<380, <<379>>>>, <<382, <<381>>>>,
      <<383, <<83>>>>, <<384, <<579>>>>, <<387, <<386>>>>, <<389, <<388>>>>,
      <<392, <<391>>>>, <<396, <<395>>>>, <<402, <<401>>>>, <<405, <<502>>>>,
      <<409, <<408>>>>, <<410, <<573>>>>, <<414, <<544>>>>, <<417, <<416>>>>,
      <<419, <<418>>>>, <<421, <<420>>>>, <<424, <<423>>>>, <<429, <<428>>>>,
      <<432, <<431>>>>, <<436, <<435>>>>, <<438, <<437>>>>, <<441, <<440>>>>,
      <<445, <<444>>>>, <<447, <<503>>>>, <<453, <<452>>>>, <<454, <<452>>>>,
      <<456, <<455>>>>, <<457, <<455>>>>, <<459, <<458>>>>, <<460, <<458>>>>,
      <<462, <<461>>>>, <<464, <<463>>>>, <<466, <<465>>>>, <<468, <<467>>>>,
      <<470, <<469>>>>, <<472, <<471>>>>, <<474, <<473>>>>, <<476, <<475>>>>,
      <<477, <<398>>>>, <<479, <<478>>>>, <<481, <<480>>>>, <<483, <<482>>>>,
      <<485, <<484>>>>, <<487, <<486>>>>, <<489, <<488>>>>, <<491, <<490>>>>,
      <<493, <<492>>>>, <<495, <<494>>>>, <<496, <<74, 780>>>>, <<498, <<497>>>>,
      <<499, <<497>>>>, <<501, <<500>>>>, <<505, <<504>>>>, <<507, <<506>>>>,
      <<509, <<508>>>>, <<511, <<510>>>>, <<513, <<512>>>>, <<515, <<514>>>>,
      <<517, <<516>>>>, <<519, <<518>>>>, <<521, <<520>>>>, <<523, <<522>>>>,
      <<525, <<524>>>>, <<527, <<526>>>>, <<529, <<528>>>>, <<531, <<530>>>>,
      <<533, <<532>>>>, <<535, <<534>>>>, <<537, <<536>>>>, <<539, <<538>>>>,
      <<541, <<540>>>>, <<543, <<542>>>>, <<547, <<546>>>>, <<549, <<548>>>>,
      <<551, <<550>>>>, <<553, <<552>>>>, <<555, <<554>>>>, <<557, <<556>>>>,
      <<559, <<558>>>>, <<561, <<560>>>>, <<563, <<562>>>>, <<572, <<571>>>>,
      <<575, <<11390>>>>, <<576, <<11391>>>>, <<578, <<577>>>>, <<583, <<582>>>>,
      <<585, <<584>>>>, <<587, <<586>>>>, <<589, <<588>>>>, <<591, <<590>>>>,
      <<592, <<11375>>>>, <<593, <<11373>>>>, <<594, <<11376>>>>,
      <<595, <<385>>>>, <<596, <<390>>>>, <<598, <<393>>>>, <<599, <<394>>>>,
      <<601, <<399>>>>, <<603, <<400>>>>, <<604, <<42923>>>>, <<608, <<403>>>>,
      <<609, <<42924>>>>, <<611, <<404>>>>, <<613, <<42893>>>>,
      <<614, <<42922>>>>, <<616, <<407>>>>, <<617, <<406>>>>, <<618, <<42926>>>>,
      <<619, <<11362>>>>, <<620, <<42925>>>>, <<623, <<412>>>>,
      <<625, <<11374>>>>, <<626, <<413>>>>, <<629, <<415>>>>, <<637, <<11364>>>>,
      <<640, <<422>>>>, <<642, <<42949>>>>, <<643, <<425>>>>, <<647, <<42929>>>>,
      <<648, <<430>>>>, <<649, <<580>>>>, <<650, <<433>>>>, <<651, <<434>>>>,
      <<652, <<581>>>>, <<658, <<439>>>>, <<669, <<42930>>>>, <<670, <<42928>>>>,
      <<837, <<921>>>>, <<881, <<880>>>>, <<883, <<882>>>>, <<887, <<886>>>>,
      <<891, <<1021>>>>, <<892, <<1022>>>>, <<893, <<1023>>>>,
      <<912, <<921, 776, 769>>>>, <<940, <<902>>>>, <<941, <<904>>>>,
      <<942, <<905>>>>, <<943, <<906>>>>, <<944, <<933, 776, 769>>>>,
      <<945, <<913>>>>, <<946, <<914>>>>, <<947, <<915>>>>, <<948, <<916>>>>,
      <<949, <<917>>>>, <<950, <<918>>>>, <<951, <<919>>>>, <<952, <<920>>>>,
      <<953, <<921>>>>, <<954, <<922>>>>, <<955, <<923>>>>, <<956, <<924>>>>,
      <<957, <<925>>>>, <<958, <<926>>>>, <<959, <<927>>>>, <<960, <<928>>>>,
      <<961, <<929>>>>, <<962, <<931>>>>, <<963, <<931>>>>, <<964, <<932>>>>,
      <<965, <<933>>>>, <<966, <<934>>>>, <<967, <<935>>>>, <<968, <<936>>>>,
      <<969, <<937>>>>, <<970, <<938>>>>, <<971, <<939>>>>, <<972, <<908>>>>,
      <<973, <<910>>>>, <<974, <<911>>>>, <<976, <<914>>>>, <<977, <<920>>>>,
      <<981, <<934>>>>, <<982, <<928>>>>, <<983, <<975>>>>, <<985, <<984>>>>,
      <<987, <<986>>>>, <<989, <<988>>>>, <<991, <<990>>>>, <<993, <<992>>>>,
      <<995, <<994>>>>, <<997, <<996>>>>, <<999, <<998>>>>, <<1001, <<1000>>>>,
      <<1003, <<1002>>>>, <<1005, <<1004>>>>, <<1007, <<1006>>>>,
      <<1008, <<922>>>>, <<1009, <<929>>>>, <<1010, <<1017>>>>,
      <<1011, <<895>>>>, <<1013, <<917>>>>, <<1016, <<1015>>>>,
      <<1019, <<1018>>>>, <<1072, <<1040>>>>, <<1073, <<1041>>>>,
      <<1074, <<1042>>>>, <<1075, <<1043>>>>, <<1076, <<1044>>>>,
      <<1077, <<1045>>>>, <<1078, <<1046>>>>, <<1079, <<1047>>>>,
      <<1080, <<1048>>>>, <<1081, <<1049>>>>, <<1082, <<1050>>>>,
      <<1083, <<1051>>>>, <<1084, <<1052>>>>, <<1085, <<1053>>>>,
      <<1086, <<1054>>>>, <<1087, <<1055>>>>, <<1088, <<1056>>>>,
      <<1089, <<1057>>>>, <<1090, <<1058>>>>, <<1091, <<1059>>>>,
      <<1092, <<1060>>>>, <<1093, <<1061>>>>, <<1094, <<1062>>>>,
      <<1095, <<1063>>>>, <<1096, <<1064>>>>, <<1097, <<1065>>>>,
      <<1098, <<1066>>>>, <<1099, <<1067>>>>, <<1100, <<1068>>>>,
      <<1101, <<1069>>>>, <<1102, <<1070>>>>, <<1103, <<1071>>>>,
      <<1104, <<1024>>>>, <<1105, <<1025>>>>, <<1106, <<1026>>>>,
      <<1107, <<1027>>>>, <<1108, <<1028>>>>, <<1109, <<1029>>>>,
      <<1110, <<1030>>>>, <<1111, <<1031>>>>, <<1112, <<1032>>>>,
      <<1113, <<1033>>>>, <<1114, <<1034>>>>, <<1115, <<1035>>>>,
      <<1116, <<1036>>>>, <<1117, <<1037>>>>, <<1118, <<1038>>>>,
      <<1119, <<1039>>>>, <<1121, <<1120>>>>, <<1123, <<1122>>>>,
      <<1125, <<1124>>>>, <<1127, <<1126>>>>, <<1129, <<1128>>>>,
      <<1131, <<1130>>>>, <<1133, <<1132>>>>, <<1135, <<1134>>>>,
      <<1137, <<1136>>>>, <<1139, <<1138>>>>, <<1141, <<1140>>>>,
      <<1143, <<1142>>>>, <<1145, <<1144>>>>, <<1147, <<1146>>>>,
      <<1149, <<1148>>>>, <<1151, <<1150>>>>, <<1153, <<1152>>>>,
      <<1163, <<1162>>>>, <<1165, <<1164>>>>, <<1167, <<1166>>>>,
      <<1169, <<1168>>>>, <<1171, <<1170>>>>, <<1173, <<1172>>>>,
      <<1175, <<1174>>>>, <<1177, <<1176>>>>, <<1179, <<1178>>>>,
      <<1181, <<1180>>>>, <<1183, <<1182>>>>, <<1185, <<1184>>>>,
      <<1187, <<1186>>>>, <<1189, <<1188>>>>, <<1191, <<1190>>>>,
      <<1193, <<1192>>>>, <<1195, <<1194>>>>, <<1197, <<1196>>>>,
      <<1199, <<1198>>>>, <<1201, <<1200>>>>, <<1203, <<1202>>>>,
      <<1205, <<1204>>>>, <<1207, <<1206>>>>, <<1209, <<1208>>>>,
      <<1211, <<1210>>>>, <<1213, <<1212>>>>, <<1215, <<1214>>>>,
      <<1218, <<1217>>>>, <<1220, <<1219>>>>, <<1222, <<1221>>>>,
      <<1224, <<1223>>>>, <<1226, <<1225>>>>, <<1228, <<1227>>>>,
      <<1230, <<1229>>>>, <<1231, <<1216>>>>, <<1233, <<1232>>>>,
      <<1235, <<1234>>>>, <<1237, <<1236>>>>, <<1239, <<1238>>>>,
      <<1241, <<1240>>>>, <<1243, <<1242>>>>, <<1245, <<1244>>>>,
      <<1247, <<1246>>>>, <<1249, <<1248>>>>, <<1251, <<1250>>>>,
      <<1253, <<1252>>>>, <<1255, <<1254>>>>, <<1257, <<1256>>>>,
      <<1259, <<1258>>>>, <<1261, <<1260>>>>, <<1263, <<1262>>>>,
      <<1265, <<1264>>>>, <<1267, <<1266>>>>, <<1269, <<1268>>>>,
      <<1271, <<1270>>>>, <<1273, <<1272>>>>, <<1275, <<1274>>>>,
      <<1277, <<1276>>>>, <<1279, <<1278>>>>, <<1281, <<1280>>>>,
      <<1283, <<1282>>>>, <<1285, <<1284>>>>, <<1287, <<1286>>>>,
      <<1289, <<1288>>>>, <<1291, <<1290>>>>, <<1293, <<1292>>>>,
      <<1295, <<1294>>>>, <<1297, <<1296>>>>, <<1299, <<1298>>>>,
      <<1301, <<1300>>>>, <<1303, <<1302>>>>, <<1305, <<1304>>>>,
      <<1307, <<1306>>>>, <<1309, <<1308>>>>, <<1311, <<1310>>>>,
      <<1313, <<1312>>>>, <<1315, <<1314>>>>, <<1317, <<1316>>>>,
      <<1319, <<1318>>>>, <<1321, <<1320>>>>, <<1323, <<1322>>>>,
      <<1325, <<1324>>>>, <<1327, <<1326>>>>, <<1377, <<1329>>>>,
      <<1378, <<1330>>>>, <<1379, <<1331>>>>, <<1380, <<1332>>>>,
      <<1381, <<1333>>>>, <<1382, <<1334>>>>, <<1383, <<1335>>>>,
      <<1384, <<1336>>>>, <<1385, <<1337>>>>, <<1386, <<1338>>>>,
      <<1387, <<1339>>>>, <<1388, <<1340>>>>, <<1389, <<1341>>>>,
      <<1390, <<1342>>>>, <<1391, <<1343>>>>, <<1392, <<1344>>>>,
      <<1393, <<1345>>>>, <<1394, <<1346>>>>, <<1395, <<1347>>>>,
      <<1396, <<1348>>>>, <<1397, <<1349>>>>, <<1398, <<1350>>>>,
      <<1399, <<1351>>>>, <<1400, <<1352>>>>, <<1401, <<1353>>>>,
      <<1402, <<1354>>>>, <<1403, <<1355>>>>, <<1404, <<1356>>>>,
      <<1405, <<1357>>>>, <<1406, <<1358>>>>, <<1407, <<1359>>>>,
      <<1408, <<1360>>>>, <<1409, <<1361>>>>, <<1410, <<1362>>>>,
      <<1411, <<1363>>>>, <<1412, <<1364>>>>, <<1413, <<1365>>>>,
      <<1414, <<1366>>>>, <<1415, <<1333, 1362>>>>, <<4304, <<7312>>>>,
      <<4305, <<7313>>>>, <<4306, <<7314>>>>, <<4307, <<7315>>>>,
      <<4308, <<7316>>>>, <<4309, <<7317>>>>, <<4310, <<7318>>>>,
      <<4311, <<7319>>>>, <<4312, <<7320>>>>, <<4313, <<7321>>>>,
      <<4314, <<7322>>>>, <<4315, <<7323>>>>, <<4316, <<7324>>>>,
      <<4317, <<7325>>>>, <<4318, <<7326>>>>, <<4319, <<7327>>>>,
      <<4320, <<7328>>>>, <<4321, <<7329>>>>, <<4322, <<7330>>>>,
      <<4323, <<7331>>>>, <<4324, <<7332>>>>, <<4325, <<7333>>>>,
      <<4326, <<7334>>>>, <<4327, <<7335>>>>, <<4328, <<7336>>>>,
      <<4329, <<7337>>>>, <<4330, <<7338>>>>, <<4331, <<7339>>>>,
      <<4332, <<7340>>>>, <<4333, <<7341>>>>, <<4334, <<7342>>>>,
      <<4335, <<7343>>>>, <<4336, <<7344>>>>, <<4337, <<7345>>>>,
      <<4338, <<7346>>>>, <<4339, <<7347>>>>, <<4340, <<7348>>>>,
      <<4341, <<7349>>>>, <<4342, <<7350>>>>, <<4343, <<7351>>>>,
      <<4344, <<7352>>>>, <<4345, <<7353>>>>, <<4346, <<7354>>>>,
      <<4349, <<7357>>>>, <<4350, <<7358>>>>, <<4351, <<7359>>>>,
      <<5112, <<5104>>>>, <<5113, <<5105>>>>, <<5114, <<5106>>>>,
      <<5115, <<5107>>>>, <<5116, <<5108>>>>, <<5117, <<5109>>>>,
      <<7296, <<1042>>>>, <<7297, <<1044>>>>, <<7298, <<1054>>>>,
      <<7299, <<1057>>>>, <<7300, <<1058>>>>, <<7301, <<1058>>>>,
      <<7302, <<1066>>>>, <<7303, <<1122>>>>, <<7304, <<42570>>>>,
      <<7545, <<42877>>>>, <<7549, <<11363>>>>, <<7566, <<42950>>>>,
      <<7681, <<7680>>>>, <<7683, <<7682>>>>, <<7685, <<7684>>>>,
      <<7687, <<7686>>>>, <<7689, <<7688>>>>, <<7691, <<7690>>>>,
      <<7693, <<7692>>>>, <<7695, <<7694>>>>, <<7697, <<7696>>>>,
      <<7699, <<7698>>>>, <<7701, <<7700>>>>, <<7703, <<7702>>>>,
      <<7705, <<7704>>>>, <<7707, <<7706>>>>, <<7709, <<7708>>>>,
      <<7711, <<7710>>>>, <<7713, <<7712>>>>, <<7715, <<7714>>>>,
      <<7717, <<7716>>>>, <<7719, <<7718>>>>, <<7721, <<7720>>>>,
      <<7723, <<7722>>>>, <<7725, <<7724>>>>, <<7727, <<7726>>>>,
      <<7729, <<7728>>>>, <<7731, <<7730>>>>, <<7733, <<7732>>>>,
      <<7735, <<7734>>>>, <<7737, <<7736>>>>, <<7739, <<7738>>>>,
      <<7741, <<7740>>>>, <<7743, <<7742>>>>, <<7745, <<7744>>>>,
      <<7747, <<7746>>>>, <<7749, <<7748>>>>, <<7751, <<7750>>>>,
      <<7753, <<7752>>>>, <<7755, <<7754>>>>, <<7757, <<7756>>>>,
      <<7759, <<7758>>>>, <<7761, <<7760>>>>, <<7763, <<7762>>>>,
      <<7765, <<7764>>>>, <<7767, <<7766>>>>, <<7769, <<7768>>>>,
      <<7771, <<7770>>>>, <<7773, <<7772>>>>, <<7775, <<7774>>>>,
      <<7777, <<7776>>>>, <<7779, <<7778>>>>, <<7781, <<7780>>>>,
      <<7783, <<7782>>>>, <<7785, <<7784>>>>, <<7787, <<7786>>>>,
      <<7789, <<7788>>>>, <<7791, <<7790>>>>, <<7793, <<7792>>>>,
      <<7795, <<7794>>>>, <<7797, <<7796>>>>, <<7799, <<7798>>>>,
      <<7801, <<7800>>>>, <<7803, <<7802>>>>, <<7805, <<7804>>>>,
      <<7807, <<7806>>>>, <<7809, <<7808>>>>, <<7811, <<7810>>>>,
      <<7813, <<7812>>>>, <<7815, <<7814>>>>, <<7817, <<7816>>>>,
      <<7819, <<7818>>>>, <<7821, <<7820>>>>, <<7823, <<7822>>>>,
      <<7825, <<7824>>>>, <<7827, <<7826>>>>, <<7829, <<7828>>>>,
      <<7830, <<72, 817>>>>, <<7831, <<84, 776>>>>, <<7832, <<87, 778>>>>,
      <<7833, <<89, 778>>>>, <<7834, <<65, 702>>>>, <<7835, <<7776>>>>,
      <<7841, <<7840>>>>, <<7843, <<7842>>>>, <<7845, <<7844>>>>,
      <<7847, <<7846>>>>, <<7849, <<7848>>>>, <<7851, <<7850>>>>,
      <<7853, <<7852>>>>, <<7855, <<7854>>>>, <<7857, <<7856>>>>,
      <<7859, <<7858>>>>, <<7861, <<7860>>>>, <<7863, <<7862>>>>,
      <<7865, <<7864>>>>, <<7867, <<7866>>>>, <<7869, <<7868>>>>,
      <<7871, <<7870>>>>, <<7873, <<7872>>>>, <<7875, <<7874>>>>,
      <<7877, <<7876>>>>, <<7879, <<7878>>>>, <<7881, <<7880>>>>,
      <<7883, <<7882>>>>, <<7885, <<7884>>>>, <<7887, <<7886>>>>,
      <<7889, <<7888>>>>, <<7891, <<7890>>>>, <<7893, <<7892>>>>,
      <<7895, <<7894>>>>, <<7897, <<7896>>>>, <<7899, <<7898>>>>,
      <<7901, <<7900>>>>, <<7903, <<7902>>>>, <<7905, <<7904>>>>,
      <<7907, <<7906>>>>, <<7909, <<7908>>>>, <<7911, <<7910>>>>,
      <<7913, <<7912>>>>, <<7915, <<7914>>>>, <<7917, <<7916>>>>,
      <<7919, <<7918>>>>, <<7921, <<7920>>>>, <<7923, <<7922>>>>,
      <<7925, <<7924>>>>, <<7927, <<7926>>>>, <<7929, <<7928>>>>,
      <<7931, <<7930>>>>, <<7933, <<7932>>>>, <<7935, <<7934>>>>,
      <<7936, <<7944>>>>, <<7937, <<7945>>>>, <<7938, <<7946>>>>,
      <<7939, <<7947>>>>, <<7940, <<7948>>>>, <<7941, <<7949>>>>,
      <<7942, <<7950>>>>, <<7943, <<7951>>>>, <<7952, <<7960>>>>,
      <<7953, <<7961>>>>, <<7954, <<7962>>>>, <<7955, <<7963>>>>,
      <<7956, <<7964>>>>, <<7957, <<7965>>>>, <<7968, <<7976>>>>,
      <<7969, <<7977>>>>, <<7970, <<7978>>>>, <<7971, <<7979>>>>,
      <<7972, <<7980>>>>, <<7973, <<7981>>>>, <<7974, <<7982>>>>,
      <<7975, <<7983>>>>, <<7984, <<7992>>>>, <<7985, <<7993>>>>,
      <<7986, <<7994>>>>, <<7987, <<7995>>>>, <<7988, <<7996>>>>,
      <<7989, <<7997>>>>, <<7990, <<7998>>>>, <<7991, <<7999>>>>,
      <<8000, <<8008>>>>, <<8001, <<8009>>>>, <<8002, <<8010>>>>,
      <<8003, <<8011>>>>, <<8004, <<8012>>>>, <<8005, <<8013>>>>,
      <<8016, <<933, 787>>>>, <<8017, <<8025>>>>, <<8018, <<933, 787, 768>>>>,
      <<8019, <<8027>>>>, <<8020, <<933, 787, 769>>>>, <<8021, <<8029>>>>,
      <<8022, <<933, 787, 834>>>>, <<8023, <<8031>>>>, <<8032, <<8040>>>>,
      <<8033, <<8041>>>>, <<8034, <<8042>>>>, <<8035, <<8043>>>>,
      <<8036, <<8044>>>>, <<8037, <<8045>>>>, <<8038, <<8046>>>>,
      <<8039, <<8047>>>>, <<8048, <<8122>>>>, <<8049, <<8123>>>>,
      <<8050, <<8136>>>>, <<8051, <<8137>>>>, <<8052, <<8138>>>>,
      <<8053, <<8139>>>>, <<8054, <<8154>>>>, <<8055, <<8155>>>>,
      <<8056, <<8184>>>>, <<8057, <<8185>>>>, <<8058, <<8170>>>>,
      <<8059, <<8171>>>>, <<8060, <<8186>>>>, <<8061, <<8187>>>>,
      <<8064, <<7944, 921>>>>, <<8065, <<7945, 921>>>>, <<8066, <<7946, 921>>>>,
      <<8067, <<7947, 921>>>>, <<8068, <<7948, 921>>>>, <<8069, <<7949, 921>>>>,
      <<8070, <<7950, 921>>>>, <<8071, <<7951, 921>>>>, <<8072, <<7944, 921>>>>,
      <<8073, <<7945, 921>>>>, <<8074, <<7946, 921>>>>, <<8075, <<7947, 921>>>>,
      <<8076, <<7948, 921>>>>, <<8077, <<7949, 921>>>>, <<8078, <<7950, 921>>>>,
      <<8079, <<7951, 921>>>>, <<8080, <<7976, 921>>>>, <<8081, <<7977, 921>>>>,
      <<8082, <<7978, 921>>>>, <<8083, <<7979, 921>>>>, <<8084, <<7980, 921>>>>,
      <<8085, <<7981, 921>>>>, <<8086, <<7982, 921>>>>, <<8087, <<7983, 921>>>>,
      <<8088, <<7976, 921>>>>, <<8089, <<7977, 921>>>>, <<8090, <<7978, 921>>>>,
      <<8091, <<7979, 921>>>>, <<8092, <<7980, 921>>>>, <<8093, <<7981, 921>>>>,
      <<8094, <<7982, 921>>>>, <<8095, <<7983, 921>>>>, <<8096, <<8040, 921>>>>,
      <<8097, <<8041, 921>>>>, <<8098, <<8042, 921>>>>, <<8099, <<8043, 921>>>>,
      <<8100, <<8044, 921>>>>, <<8101, <<8045, 921>>>>, <<8102, <<8046, 921>>>>,
      <<8103, <<8047, 921>>>>, <<8104, <<8040, 921>>>>, <<8105, <<8041, 921>>>>,
      <<8106, <<8042, 921>>>>, <<8107, <<8043, 921>>>>, <<8108, <<8044, 921>>>>,
      <<8109, <<8045, 921>>>>, <<8110, <<8046, 921>>>>, <<8111, <<8047, 921>>>>,
      <<8112, <<8120>>>>, <<8113, <<8121>>>>, <<8114, <<8122, 921>>>>,
      <<8115, <<913, 921>>>>, <<8116, <<902, 921>>>>, <<8118, <<913, 834>>>>,
      <<8119, <<913, 834, 921>>>>, <<8124, <<913, 921>>>>, <<8126, <<921>>>>,
      <<8130, <<8138, 921>>>>, <<8131, <<919, 921>>>>, <<8132, <<905, 921>>>>,
      <<8134, <<919, 834>>>>, <<8135, <<919, 834, 921>>>>,
      <<8140, <<919, 921>>>>, <<8144, <<8152>>>>, <<8145, <<8153>>>>,
      <<8146, <<921, 776, 768>>>>, <<8147, <<921, 776, 769>>>>,
      <<8150, <<921, 834>>>>, <<8151, <<921, 776, 834>>>>, <<8160, <<8168>>>>,
      <<8161, <<8169>>>>, <<8162, <<933, 776, 768>>>>,
      <<8163, <<933, 776, 769>>>>, <<8164, <<929, 787>>>>, <<8165, <<8172>>>>,
      <<8166, <<933, 834>>>>, <<8167, <<933, 776, 834>>>>,
      <<8178, <<8186, 921>>>>, <<8179, <<937, 921>>>>, <<8180, <<911, 921>>>>,
      <<8182, <<937, 834>>>>, <<8183, <<937, 834, 921>>>>,
      <<8188, <<937, 921>>>>, <<8526, <<8498>>>>, <<8560, <<8544>>>>,
      <<8561, <<8545>>>>, <<8562, <<8546>>>>, <<8563, <<8547>>>>,
      <<8564, <<8548>>>>, <<8565, <<8549>>>>, <<8566, <<8550>>>>,
      <<8567, <<8551>>>>, <<8568, <<8552>>>>, <<8569, <<8553>>>>,
      <<8570, <<8554>>>>, <<8571, <<8555>>>>, <<8572, <<8556>>>>,
      <<8573, <<8557>>>>, <<8574, <<8558>>>>, <<8575, <<8559>>>>,
      <<8580, <<8579>>>>, <<9424, <<9398>>>>, <<9425, <<9399>>>>,
      <<9426, <<9400>>>>, <<9427, <<9401>>>>, <<9428, <<9402>>>>,
      <<9429, <<9403>>>>, <<9430, <<9404>>>>, <<9431, <<9405>>>>,
      <<9432, <<9406>>>>, <<9433, <<9407>>>>, <<9434, <<9408>>>>,
      <<9435, <<9409>>>>, <<9436, <<9410>>>>, <<9437, <<9411>>>>,
      <<9438, <<9412>>>>, <<9439, <<9413>>>>, <<9440, <<9414>>>>,
      <<9441, <<9415>>>>, <<9442, <<9416>>>>, <<9443, <<9417>>>>,
      <<9444, <<9418>>>>, <<9445, <<9419>>>>, <<9446, <<9420>>>>,
      <<9447, <<9421>>>>, <<9448, <<9422>>>>, <<9449, <<9423>>>>,
      <<11312, <<11264>>>>, <<11313, <<11265>>>>, <<11314, <<11266>>>>,
      <<11315, <<11267>>>>, <<11316, <<11268>>>>, <<11317, <<11269>>>>,
      <<11318, <<11270>>>>, <<11319, <<11271>>>>, <<11320, <<11272>>>>,
      <<11321, <<11273>>>>, <<11322, <<11274>>>>, <<11323, <<11275>>>>,
      <<11324, <<11276>>>>, <<11325, <<11277>>>>, <<11326, <<11278>>>>,
      <<11327, <<11279>>>>, <<11328, <<11280>>>>, <<11329, <<11281>>>>,
      <<11330, <<11282>>>>, <<11331, <<11283>>>>, <<11332, <<11284>>>>,
      <<11333, <<11285>>>>, <<11334, <<11286>>>>, <<11335, <<11287>>>>,
      <<11336, <<11288>>>>, <<11337, <<11289>>>>, <<11338, <<11290>>>>,
      <<11339, <<11291>>>>, <<11340, <<11292>>>>, <<11341, <<11293>>>>,
      <<11342, <<11294>>>>, <<11343, <<11295>>>>, <<11344, <<11296>>>>,
      <<11345, <<11297>>>>, <<11346, <<11298>>>>, <<11347, <<11299>>>>,
      <<11348, <<11300>>>>, <<11349, <<11301>>>>, <<11350, <<11302>>>>,
      <<11351, <<11303>>>>, <<11352, <<11304>>>>, <<11353, <<11305>>>>,
      <<11354, <<11306>>>>, <<11355, <<11307>>>>, <<11356, <<11308>>>>,
      <<11357, <<11309>>>>, <<11358, <<11310>>>>, <<11359, <<11311>>>>,
      <<11361, <<11360>>>>, <<11365, <<570>>>>, <<11366, <<574>>>>,
      <<11368, <<11367>>>>, <<11370, <<11369>>>>, <<11372, <<11371>>>>,
      <<11379, <<11378>>>>, <<11382, <<11381>>>>, <<11393, <<11392>>>>,
      <<11395, <<11394>>>>, <<11397, <<11396>>>>, <<11399, <<11398>>>>,
      <<11401, <<11400>>>>, <<11403, <<11402>>>>, <<11405, <<11404>>>>,
      <<11407, <<11406>>>>, <<11409, <<11408>>>>, <<11411, <<11410>>>>,
      <<11413, <<11412>>>>, <<11415, <<11414>>>>, <<11417, <<11416>>>>,
      <<11419, <<11418>>>>, <<11421, <<11420>>>>, <<11423, <<11422>>>>,
      <<11425, <<11424>>>>, <<11427, <<11426>>>>, <<11429, <<11428>>>>,
      <<11431, <<11430>>>>, <<11433, <<11432>>>>, <<11435, <<11434>>>>,
      <<11437, <<11436>>>>, <<11439, <<11438>>>>, <<11441, <<11440>>>>,
      <<11443, <<11442>>>>, <<11445, <<11444>>>>, <<11447, <<11446>>>>,
      <<11449, <<11448>>>>, <<11451, <<11450>>>>, <<11453, <<11452>>>>,
      <<11455, <<11454>>>>, <<11457, <<11456>>>>, <<11459, <<11458>>>>,
      <<11461, <<11460>>>>, <<11463, <<11462>>>>, <<11465, <<11464>>>>,
      <<11467, <<11466>>>>, <<11469, <<11468>>>>, <<11471, <<11470>>>>,
      <<11473, <<11472>>>>, <<11475, <<11474>>>>, <<11477, <<11476>>>>,
      <<11479, <<11478>>>>, <<11481, <<11480>>>>, <<11483, <<11482>>>>,
      <<11485, <<11484>>>>, <<11487, <<11486>>>>, <<11489, <<11488>>>>,
      <<11491, <<11490>>>>, <<11500, <<11499>>>>, <<11502, <<11501>>>>,
      <<11507, <<11506>>>>, <<11520, <<4256>>>>, <<11521, <<4257>>>>,
      <<11522, <<4258>>>>, <<11523, <<4259>>>>, <<11524, <<4260>>>>,
      <<11525, <<4261>>>>, <<11526, <<4262>>>>, <<11527, <<4263>>>>,
      <<11528, <<4264>>>>, <<11529, <<4265>>>>, <<11530, <<4266>>>>,
      <<11531, <<4267>>>>, <<11532, <<4268>>>>, <<11533, <<4269>>>>,
      <<11534, <<4270>>>>, <<11535, <<4271>>>>, <<11536, <<4272>>>>,
      <<11537, <<4273>>>>, <<11538, <<4274>>>>, <<11539, <<4275>>>>,
      <<11540, <<4276>>>>, <<11541, <<4277>>>>, <<11542, <<4278>>>>,
      <<11543, <<4279>>>>, <<11544, <<4280>>>>, <<11545, <<4281>>>>,
      <<11546, <<4282>>>>, <<11547, <<4283>>>>, <<11548, <<4284>>>>,
      <<11549, <<4285>>>>, <<11550, <<4286>>>>, <<11551, <<4287>>>>,
      <<11552, <<4288>>>>, <<11553, <<4289>>>>, <<11554, <<4290>>>>,
      <<11555, <<4291>>>>, <<11556, <<4292>>>>, <<11557, <<4293>>>>,
      <<11559, <<4295>>>>, <<11565, <<4301>>>>, <<42561, <<42560>>>>,
      <<42563, <<42562>>>>, <<42565, <<42564>>>>, <<42567, <<42566>>>>,
      <<42569, <<42568>>>>, <<42571, <<42570>>>>, <<42573, <<42572>>>>,
      <<42575, <<42574>>>>, <<42577, <<42576>>>>, <<42579, <<42578>>>>,
      <<42581, <<42580>>>>, <<42583, <<42582>>>>, <<42585, <<42584>>>>,
      <<42587, <<42586>>>>, <<42589, <<42588>>>>, <<42591, <<42590>>>>,
      <<42593, <<42592>>>>, <<42595, <<42594>>>>, <<42597, <<42596>>>>,
      <<42599, <<42598>>>>, <<42601, <<42600>>>>, <<42603, <<42602>>>>,
      <<42605, <<42604>>>>, <<42625, <<42624>>>>, <<42627, <<42626>>>>,
      <<42629, <<42628>>>>, <<42631, <<42630>>>>, <<42633, <<42632>>>>,
      <<42635, <<42634>>>>, <<42637, <<42636>>>>, <<42639, <<42638>>>>,
      <<42641, <<42640>>>>, <<42643, <<42642>>>>, <<42645, <<42644>>>>,
      <<42647, <<42646>>>>, <<42649, <<42648>>>>, <<42651, <<42650>>>>,
      <<42787, <<42786>>>>, <<42789, <<42788>>>>, <<42791, <<42790>>>>,
      <<42793, <<42792>>>>, <<42795, <<42794>>>>, <<42797, <<42796>>>>,
      <<42799, <<42798>>>>, <<42803, <<42802>>>>, <<42805, <<42804>>>>,
      <<42807, <<42806>>>>, <<42809, <<42808>>>>, <<42811, <<42810>>>>,
      <<42813, <<42812>>>>, <<42815, <<42814>>>>, <<42817, <<42816>>>>,
      <<42819, <<42818>>>>, <<42821, <<42820>>>>, <<42823, <<42822>>>>,
      <<42825, <<42824>>>>, <<42827, <<42826>>>>, <<42829, <<42828>>>>,
      <<42831, <<42830>>>>, <<42833, <<42832>>>>, <<42835, <<42834>>>>,
      <<42837, <<42836>>>>, <<42839, <<42838>>>>, <<42841, <<42840>>>>,
      <<42843, <<42842>>>>, <<42845, <<42844>>>>, <<42847, <<42846>>>>,
      <<42849, <<42848>>>>, <<42851, <<42850>>>>, <<42853, <<42852>>>>,
      <<42855, <<42854>>>>, <<42857, <<42856>>>>, <<42859, <<42858>>>>,
      <<42861, <<42860>>>>, <<42863, <<42862>>>>, <<42874, <<42873>>>>,
      <<42876, <<42875>>>>, <<42879, <<42878>>>>, <<42881, <<42880>>>>,
      <<42883, <<42882>>>>, <<42885, <<42884>>>>, <<42887, <<42886>>>>,
      <<42892, <<42891>>>>, <<42897, <<42896>>>>, <<42899, <<42898>>>>,
      <<42900, <<42948>>>>, <<42903, <<42902>>>>, <<42905, <<42904>>>>,
      <<42907, <<42906>>>>, <<42909, <<42908>>>>, <<42911, <<42910>>>>,
      <<42913, <<42912>>>>, <<42915, <<42914>>>>, <<42917, <<42916>>>>,
      <<42919, <<42918>>>>, <<42921, <<42920>>>>, <<42933, <<42932>>>>,
      <<42935, <<42934>>>>, <<42937, <<42936>>>>, <<42939, <<42938>>>>,
      <<42941, <<42940>>>>, <<42943, <<42942>>>>, <<42945, <<42944>>>>,
      <<42947, <<42946>>>>, <<42952, <<42951>>>>, <<42954, <<42953>>>>,
      <<42961, <<42960>>>>, <<42967, <<42966>>>>, <<42969, <<42968>>>>,
      <<42998, <<42997>>>>, <<43859, <<42931>>>>, <<43888, <<5024>>>>,
      <<43889, <<5025>>>>, <<43890, <<5026>>>>, <<43891, <<5027>>>>,
      <<43892, <<5028>>>>, <<43893, <<5029>>>>, <<43894, <<5030>>>>,
      <<43895, <<5031>>>>, <<43896, <<5032>>>>, <<43897, <<5033>>>>,
      <<43898, <<5034>>>>, <<43899, <<5035>>>>, <<43900, <<5036>>>>,
      <<43901, <<5037>>>>, <<43902, <<5038>>>>, <<43903, <<5039>>>>,
      <<43904, <<5040>>>>, <<43905, <<5041>>>>, <<43906, <<5042>>>>,
      <<43907, <<5043>>>>, <<43908, <<5044>>>>, <<43909, <<5045>>>>,
      <<43910, <<5046>>>>, <<43911, <<5047>>>>, <<43912, <<5048>>>>,
      <<43913, <<5049>>>>, <<43914, <<5050>>>>, <<43915, <<5051>>>>,
      <<43916, <<5052>>>>, <<43917, <<5053>>>>, <<43918, <<5054>>>>,
      <<43919, <<5055>>>>, <<43920, <<5056>>>>, <<43921, <<5057>>>>,
      <<43922, <<5058>>>>, <<43923, <<5059>>>>, <<43924, <<5060>>>>,
      <<43925, <<5061>>>>, <<43926, <<5062>>>>, <<43927, <<5063>>>>,
      <<43928, <<5064>>>>, <<43929, <<5065>>>>, <<43930, <<5066>>>>,
      <<43931, <<5067>>>>, <<43932, <<5068>>>>, <<43933, <<5069>>>>,
      <<43934, <<5070>>>>, <<43935, <<5071>>>>, <<43936, <<5072>>>>,
      <<43937, <<5073>>>>, <<43938, <<5074>>>>, <<43939, <<5075>>>>,
      <<43940, <<5076>>>>, <<43941, <<5077>>>>, <<43942, <<5078>>>>,
      <<43943, <<5079>>>>, <<43944, <<5080>>>>, <<43945, <<5081>>>>,
      <<43946, <<5082>>>>, <<43947, <<5083>>>>, <<43948, <<5084>>>>,
      <<43949, <<5085>>>>, <<43950, <<5086>>>>, <<43951, <<5087>>>>,
      <<43952, <<5088>>>>, <<43953, <<5089>>>>, <<43954, <<5090>>>>,
      <<43955, <<5091>>>>, <<43956, <<5092>>>>, <<43957, <<5093>>>>,
      <<43958, <<5094>>>>, <<43959, <<5095>>>>, <<43960, <<5096>>>>,
      <<43961, <<5097>>>>, <<43962, <<5098>>>>, <<43963, <<5099>>>>,
      <<43964, <<5100>>>>, <<43965, <<5101>>>>, <<43966, <<5102>>>>,
      <<43967, <<5103>>>>, <<64256, <<70, 70>>>>, <<64257, <<70, 73>>>>,
      <<64258, <<70, 76>>>>, <<64259, <<70, 70, 73>>>>,
      <<64260, <<70, 70, 76>>>>, <<64261, <<83, 84>>>>, <<64262, <<83, 84>>>>,
      <<64275, <<1348, 1350>>>>, <<64276, <<1348, 1333>>>>,
      <<64277, <<1348, 1339>>>>, <<64278, <<1358, 1350>>>>,
      <<64279, <<1348, 1341>>>>, <<65345, <<65313>>>>, <<65346, <<65314>>>>,
      <<65347, <<65315>>>>, <<65348, <<65316>>>>, <<65349, <<65317>>>>,
      <<65350, <<65318>>>>, <<65351, <<65319>>>>, <<65352, <<65320>>>>,
      <<65353, <<65321>>>>, <<65354, <<65322>>>>, <<65355, <<65323>>>>,
      <<65356, <<65324>>>>, <<65357, <<65325>>>>, <<65358, <<65326>>>>,
      <<65359, <<65327>>>>, <<65360, <<65328>>>>, <<65361, <<65329>>>>,
      <<65362, <<65330>>>>, <<65363, <<65331>>>>, <<65364, <<65332>>>>,
      <<65365, <<65333>>>>, <<65366, <<65334>>>>, <<65367, <<65335>>>>,
      <<65368, <<65336>>>>, <<65369, <<65337>>>>, <<65370, <<65338>>>>,
      <<66600, <<66560>>>>, <<66601, <<66561>>>>, <<66602, <<66562>>>>,
      <<66603, <<66563>>>>, <<66604, <<66564>>>>, <<66605, <<66565>>>>,
      <<66606, <<66566>>>>, <<66607, <<66567>>>>, <<66608, <<66568>>>>,
      <<66609, <<66569>>>>, <<66610, <<66570>>>>, <<66611, <<66571>>>>,
      <<66612, <<66572>>>>, <<66613, <<66573>>>>, <<66614, <<66574>>>>,
      <<66615, <<66575>>>>, <<66616, <<66576>>>>, <<66617, <<66577>>>>,
      <<66618, <<66578>>>>, <<66619, <<66579>>>>, <<66620, <<66580>>>>,
      <<66621, <<66581>>>>, <<66622, <<66582>>>>, <<66623, <<66583>>>>,
      <<66624, <<66584>>>>, <<66625, <<66585>>>>, <<66626, <<66586>>>>,
      <<66627, <<66587>>>>, <<66628, <<66588>>>>, <<66629, <<66589>>>>,
      <<66630, <<66590>>>>, <<66631, <<66591>>>>, <<66632, <<66592>>>>,
      <<66633, <<66593>>>>, <<66634, <<66594>>>>, <<66635, <<66595>>>>,
      <<66636, <<66596>>>>, <<66637, <<66597>>>>, <<66638, <<66598>>>>,
      <<66639, <<66599>>>>, <<66776, <<66736>>>>, <<66777, <<66737>>>>,
      <<66778, <<66738>>>>, <<66779, <<66739>>>>, <<66780, <<66740>>>>,
      <<66781, <<66741>>>>, <<66782, <<66742>>>>, <<66783, <<66743>>>>,
      <<66784, <<66744>>>>, <<66785, <<66745>>>>, <<66786, <<66746>>>>,
      <<66787, <<66747>>>>, <<66788, <<66748>>>>, <<66789, <<66749>>>>,
      <<66790, <<66750>>>>, <<66791, <<66751>>>>, <<66792, <<66752>>>>,
      <<66793, <<66753>>>>, <<66794, <<66754>>>>, <<66795, <<66755>>>>,
      <<66796, <<66756>>>>, <<66797, <<66757>>>>, <<66798, <<66758>>>>,
      <<66799, <<66759>>>>, <<66800, <<66760>>>>, <<66801, <<66761>>>>,
      <<66802, <<66762>>>>, <<66803, <<66763>>>>, <<66804, <<66764>>>>,
      <<66805, <<66765>>>>, <<66806, <<66766>>>>, <<66807, <<66767>>>>,
      <<66808, <<66768>>>>, <<66809, <<66769>>>>, <<66810, <<66770>>>>,
      <<66811, <<66771>>>>, <<66967, <<66928>>>>, <<66968, <<66929>>>>,
      <<66969, <<66930>>>>, <<66970, <<66931>>>>, <<66971, <<66932>>>>,
      <<66972, <<66933>>>>, <<66973, <<66934>>>>, <<66974, <<66935>>>>,
      <<66975, <<66936>>>>, <<66976, <<66937>>>>, <<66977, <<66938>>>>,
      <<66979, <<66940>>>>, <<66980, <<66941>>>>, <<66981, <<66942>>>>,
      <<66982, <<66943>>>>, <<66983, <<66944>>>>, <<66984, <<66945>>>>,
      <<66985, <<66946>>>>, <<66986, <<66947>>>>, <<66987, <<66948>>>>,
      <<66988, <<66949>>>>, <<66989, <<66950>>>>, <<66990, <<66951>>>>,
      <<66991, <<66952>>>>, <<66992, <<66953>>>>, <<66993, <<66954>>>>,
      <<66995, <<66956>>>>, <<66996, <<66957>>>>, <<66997, <<66958>>>>,
      <<66998, <<66959>>>>, <<66999, <<66960>>>>, <<67000, <<66961>>>>,
      <<67001, <<66962>>>>, <<67003, <<66964>>>>, <<67004, <<66965>>>>,
      <<68800, <<68736>>>>, <<68801, <<68737>>>>, <<68802, <<68738>>>>,
      <<68803, <<68739>>>>, <<68804, <<68740>>>>, <<68805, <<68741>>>>,
      <<68806, <<68742>>>>, <<68807, <<68743>>>>, <<68808, <<68744>>>>,
      <<68809, <<68745>>>>, <<68810, <<68746>>>>, <<68811, <<68747>>>>,
      <<68812, <<68748>>>>, <<68813, <<68749>>>>, <<68814, <<68750>>>>,
      <<68815, <<68751>>>>, <<68816, <<68752>>>>, <<68817, <<68753>>>>,
      <<68818, <<68754>>>>, <<68819, <<68755>>>>, <<68820, <<68756>>>>,
      <<68821, <<68757>>>>, <<68822, <<68758>>>>, <<68823, <<68759>>>>,
      <<68824, <<68760>>>>, <<68825, <<68761>>>>, <<68826, <<68762>>>>,
      <<68827, <<68763>>>>, <<68828, <<68764>>>>, <<68829, <<68765>>>>,
      <<68830, <<68766>>>>, <<68831, <<68767>>>>, <<68832, <<68768>>>>,
      <<68833, <<68769>>>>, <<68834, <<68770>>>>, <<68835, <<68771>>>>,
      <<68836, <<68772>>>>, <<68837, <<68773>>>>, <<68838, <<68774>>>>,
      <<68839, <<68775>>>>, <<68840, <<68776>>>>, <<68841, <<68777>>>>,
      <<68842, <<68778>>>>, <<68843, <<68779>>>>, <<68844, <<68780>>>>,
      <<68845, <<68781>>>>, <<68846, <<68782>>>>, <<68847, <<68783>>>>,
      <<68848, <<68784>>>>, <<68849, <<68785>>>>, <<68850, <<68786>>>>,
      <<71872, <<71840>>>>, <<71873, <<71841>>>>, <<71874, <<71842>>>>,
      <<71875, <<71843>>>>, <<71876, <<71844>>>>, <<71877, <<71845>>>>,
      <<71878, <<71846>>>>, <<71879, <<71847>>>>, <<71880, <<71848>>>>,
      <<71881, <<71849>>>>, <<71882, <<71850>>>>, <<71883, <<71851>>>>,
      <<71884, <<71852>>>>, <<71885, <<71853>>>>, <<71886, <<71854>>>>,
      <<71887, <<71855>>>>, <<71888, <<71856>>>>, <<71889, <<71857>>>>,
      <<71890, <<71858>>>>, <<71891, <<71859>>>>, <<71892, <<71860>>>>,
      <<71893, <<71861>>>>, <<71894, <<71862>>>>, <<71895, <<71863>>>>,
      <<71896, <<71864>>>>, <<71897, <<71865>>>>, <<71898, <<71866>>>>,
      <<71899, <<71867>>>>, <<71900, <<71868>>>>, <<71901, <<71869>>>>,
      <<71902, <<71870>>>>, <<71903, <<71871>>>>, <<93792, <<93760>>>>,
      <<93793, <<93761>>>>, <<93794, <<93762>>>>, <<93795, <<93763>>>>,
      <<93796, <<93764>>>>, <<93797, <<93765>>>>, <<93798, <<93766>>>>,
      <<93799, <<93767>>>>, <<93800, <<93768>>>>, <<93801, <<93769>>>>,
      <<93802, <<93770>>>>, <<93803, <<93771>>>>, <<93804, <<93772>>>>,
      <<93805, <<93773>>>>, <<93806, <<93774>>>>, <<93807, <<93775>>>>,
      <<93808, <<93776>>>>, <<93809, <<93777>>>>, <<93810, <<93778>>>>,
      <<93811, <<93779>>>>, <<93812, <<93780>>>>, <<93813, <<93781>>>>,
      <<93814, <<93782>>>>, <<93815, <<93783>>>>, <<93816, <<93784>>>>,
      <<93817, <<93785>>>>, <<93818, <<93786>>>>, <<93819, <<93787>>>>,
      <<93820, <<93788>>>>, <<93821, <<93789>>>>, <<93822, <<93790>>>>,
      <<93823, <<93791>>>>, <<125218, <<125184>>>>, <<125219, <<125185>>>>,
      <<125220, <<125186>>>>, <<125221, <<125187>>>>, <<125222, <<125188>>>>,
      <<125223, <<125189>>>>, <<125224, <<125190>>>>, <<125225, <<125191>>>>,
      <<125226, <<125192>>>>, <<125227, <<125193>>>>, <<125228, <<125194>>>>,
      <<125229, <<125195>>>>, <<125230, <<125196>>>>, <<125231, <<125197>>>>,
      <<125232, <<125198>>>>, <<125233, <<125199>>>>, <<125234, <<125200>>>>,
      <<125235, <<125201>>>>, <<125236, <<125202>>>>, <<125237, <<125203>>>>,
      <<125238, <<125204>>>>, <<125239, <<125205>>>>, <<125240, <<125206>>>>,
      <<125241, <<125207>>>>, <<125242, <<125208>>>>, <<125243, <<125209>>>>,
      <<125244, <<125210>>>>, <<125245, <<125211>>>>, <<125246, <<125212>>>>,
      <<125247, <<125213>>>>, <<125248, <<125214>>>>, <<125249, <<125215>>>>,
      <<125250, <<125216>>>>, <<125251, <<125217>>>>>>

\* the table as a function of the character
UpperCaseOf ==
    [c \in {UpperCaseTable[i][1] : i \in DOMAIN UpperCaseTable} |->
        UpperCaseTable[CHOOSE i \in DOMAIN UpperCaseTable : UpperCaseTable[i][1] = c][2]]

\* str.upper() on one character: a to z become A to Z, a character of
\* the table becomes its entry, every other character stays
upper_char(c) ==
    IF c < 128
    THEN IF c \in 97..122 THEN <<c - 32>> ELSE <<c>>
    ELSE IF c \in DOMAIN UpperCaseOf THEN UpperCaseOf[c] ELSE <<c>>

\* str.upper(): every character of the text in upper case
RECURSIVE upper(_)
upper(s) ==
    IF s = <<>> THEN <<>> ELSE upper_char(Head(s)) \o upper(Tail(s))

\* the characters str.strip() removes: those str.isspace() holds of
Whitespace ==
    9..13 \cup 28..32 \cup {133} \cup {160} \cup {5760} \cup 8192..8202
    \cup 8232..8233 \cup {8239} \cup {8287} \cup {12288}

RECURSIVE lstrip(_)
lstrip(s) == IF s # <<>> /\ Head(s) \in Whitespace THEN lstrip(Tail(s)) ELSE s

RECURSIVE rstrip(_)
rstrip(s) ==
    IF s # <<>> /\ s[Len(s)] \in Whitespace
    THEN rstrip(SubSeq(s, 1, Len(s) - 1)) ELSE s

\* str.strip(): the text without the whitespace at its two ends
strip(s) == rstrip(lstrip(s))

\* the order of two texts under SQLite's BINARY collation, which compares
\* the UTF-8 bytes and so the code points from the left
RECURSIVE TextLE(_, _)
TextLE(a, b) ==
    IF a = <<>> THEN TRUE
    ELSE IF b = <<>> THEN FALSE
    ELSE IF Head(a) # Head(b) THEN Head(a) < Head(b)
    ELSE TextLE(Tail(a), Tail(b))

\* the case folding of SQLite's LIKE: A to Z and a to z are alike, no other
\* character is folded
like_fold(c) == IF c \in 97..122 THEN c - 32 ELSE c

\* text LIKE pattern: % stands for any run of characters, _ for any one
\* character
RECURSIVE like(_, _)
like(pattern, text) ==
    IF pattern = <<>> THEN text = <<>>
    ELSE IF Head(pattern) = 37
    THEN \/ like(Tail(pattern), text)
         \/ text # <<>> /\ like(pattern, Tail(text))
    ELSE IF text = <<>> THEN FALSE
    ELSE IF Head(pattern) = 95 THEN like(Tail(pattern), Tail(text))
    ELSE /\ like_fold(Head(pattern)) = like_fold(Head(text))
         /\ like(Tail(pattern), Tail(text))

\* the comments of the entries the stores start with
Note == Text("note")

LeftEarly == Text("left early")

Course == Text("course")

Worked == Text("worked")

----------------------------------------------------------------------------
(* datetime.date and calendar.monthrange, as the helpers use them *)

IsLeap(y) == (y % 4 = 0) /\ ((y % 100 # 0) \/ (y % 400 = 0))

\* calendar.monthrange(year, month)[1]
DaysInMonth(y, m) ==
    IF m = 2 THEN (IF IsLeap(y) THEN 29 ELSE 28)
    ELSE IF m \in {4, 6, 9, 11} THEN 30 ELSE 31

DaysBeforeYear(y) ==
    LET p == y - 1 IN 365 * p + (p \div 4) - (p \div 100) + (p \div 400)

RECURSIVE DaysBeforeMonth(_, _)
DaysBeforeMonth(y, m) ==
    IF m = 1 THEN 0 ELSE DaysBeforeMonth(y, m - 1) + DaysInMonth(y, m - 1)

\* date(y, m, d), as its ordinal
Date(y, m, d) == DaysBeforeYear(y) + DaysBeforeMonth(y, m) + d

\* date.weekday(): Monday = 0 ... Sunday = 6
weekday(d) == (d + 6) % 7

FirstDate == Date(FirstYear, 1, 1)

LastDate == Date(FirstYear + NumYears - 1, 12, 31)

Dates == FirstDate .. LastDate

\* days before the first of each month of a common year
DaysBeforeMonthCommon == <<0, 31, 59, 90, 120, 151, 181, 212, 243, 273, 304, 334>>

\* year, month and day of an ordinal, as date.fromordinal computes them
ord2ymd(d) ==
    LET n0   == d - 1
        n400 == n0 \div 146097
        r400 == n0 % 146097
        n100 == r400 \div 36524
        r100 == r400 % 36524
        n4   == r100 \div 1461
        r4   == r100 % 1461
        n1   == r4 \div 365
        n    == r4 % 365
        year == 400 * n400 + 100 * n100 + 4 * n4 + n1 + 1
    IN  IF n1 = 4 \/ n100 = 4 THEN <<year - 1, 12, 31>>
        ELSE LET leap  == IF IsLeap(year) THEN 1 ELSE 0
                 guess == (n + 50) \div 32
                 prec  == DaysBeforeMonthCommon[guess] + (IF guess > 2 THEN leap ELSE 0)
                 month == IF prec > n THEN guess - 1 ELSE guess
                 before == IF prec > n
                           THEN DaysBeforeMonthCommon[guess - 1]
                                + (IF guess - 1 > 2 THEN leap ELSE 0)
                           ELSE prec
             IN  <<year, month, n - before + 1>>

\* date.year
YearOf(d) == ord2ymd(d)[1]

\* date.month
MonthOf(d) == ord2ymd(d)[2]

\* date.strftime("%a")
DayName(d) == <<"Mon", "Tue", "Wed", "Thu", "Fri", "Sat", "Sun">>[weekday(d) + 1]

----------------------------------------------------------------------------
(* utils.py *)

get_week_start_off_by_one(d) == d - ((weekday(d) + 1) % 7)

get_week_start(d) ==
    LET days_since_saturday == (weekday(d) + 2) % 7
    IN  d - days_since_saturday

RECURSIVE weeks_from(_, _)
weeks_from(week_start, last_day) ==
    IF week_start <= last_day
    THEN <<<<week_start, week_start + 6>>>> \o weeks_from(week_start + 7, last_day)
    ELSE <<>>

RECURSIVE weeks_from_strict(_, _)
weeks_from_strict(week_start, last_day) ==
    IF week_start + 6 <= last_day
    THEN <<<<week_start, week_start + 6>>>> \o weeks_from_strict(week_start + 7, last_day)
    ELSE <<>>

get_weeks_in_month_stops_early(year, month) ==
    weeks_from_strict(get_week_start(Date(year, month, 1)),
                      Date(year, month, DaysInMonth(year, month)))

get_weeks_in_month(year, month) ==
    LET first_day == Date(year, month, 1)
        last_day  == Date(year, month, DaysInMonth(year, month))
    IN  weeks_from(get_week_start(first_day), last_day)

----------------------------------------------------------------------------
(* models.py: Config, its Decimal fields in hundredths *)

DefaultConfig ==
    [hourly_rate |-> 9700, currency |-> "GBP", standard_day_hours |-> 750,
     vat_rate |-> 20]

\* a table without rows, as init_db creates it; a table is the set of its rows
EmptyTable == {}

----------------------------------------------------------------------------
(* Calls of the calendar helpers *)

NoCall == [fn |-> "none"]

\* the storage API and the pure helpers used without the application
AppNotRunning ==
    /\ app = None
    /\ screen = None
    /\ notice = None
    /\ crashed = FALSE
    /\ ui_event = NoCall

CallGetWeekStart ==
    /\ \E d \in Dates :
          cal_call' = [fn |-> "get_week_start", d |-> d, ret |-> get_week_start(d)]
    /\ UNCHANGED <<hrs_entry, hrs_call, config, time_entries, st_call,
                   tickets, ticket_allocations, appVars>>

CallGetWeeksInMonth ==
    /\ \E y \in Years, m \in Months :
          cal_call' = [fn |-> "get_weeks_in_month", year |-> y, month |-> m,
                       ret |-> get_weeks_in_month(y, m)]
    /\ UNCHANGED <<hrs_entry, hrs_call, config, time_entries, st_call,
                   tickets, ticket_allocations, appVars>>

InitCal ==
    /\ cal_call = NoCall
    /\ hrs_entry = None
    /\ hrs_call = NoCall
    /\ config = EmptyTable
    /\ time_entries = EmptyTable
    /\ st_call = NoCall
    /\ tickets = EmptyTable
    /\ ticket_allocations = EmptyTable
    /\ AppNotRunning

NextCal == CallGetWeekStart \/ CallGetWeeksInMonth

SpecCal == InitCal /\ [][NextCal]_vars

----------------------------------------------------------------------------
(* C1: for every date d, get_week_start(d) is a Saturday and                *)
(* get_week_start(d) <= d <= get_week_start(d) + 6 days; a Saturday maps to *)
(* itself and a Friday to the Saturday six days earlier.                    *)
C1_WeekStartIsSaturdayOnOrBefore ==
    cal_call.fn = "get_week_start" =>
        /\ weekday(cal_call.ret) = 5
        /\ cal_call.ret <= cal_call.d
        /\ cal_call.d <= cal_call.ret + 6
        /\ (weekday(cal_call.d) = 5 => cal_call.ret = cal_call.d)
        /\ (weekday(cal_call.d) = 4 => cal_call.ret = cal_call.d - 6)

\* a Friday early in January: its week starts in the previous year
C1_Witness ==
    /\ cal_call.fn = "get_week_start"
    /\ weekday(cal_call.d) = 4
    /\ cal_call.ret = cal_call.d - 6
    /\ cal_call.ret < Date(YearOf(cal_call.d), 1, 1)

(* C2: for every (year, month), get_weeks_in_month returns an ordered list  *)
(* of (start, end) pairs: every start is a Saturday and end = start + 6;    *)
(* each next start is one day after the previous end; the first start is    *)
(* the Saturday on or before the 1st; every returned week holds at least    *)
(* one day of the month; every day of the month lies in exactly one week.   *)
C2_WeeksTileTheMonth ==
    cal_call.fn = "get_weeks_in_month" =>
        LET w     == cal_call.ret
            first == Date(cal_call.year, cal_call.month, 1)
            last  == Date(cal_call.year, cal_call.month,
                          DaysInMonth(cal_call.year, cal_call.month))
        IN  /\ Len(w) >= 1
            /\ \A i \in 1 .. Len(w) :
                  /\ weekday(w[i][1]) = 5
                  /\ w[i][2] = w[i][1] + 6
                  /\ w[i][2] >= first
                  /\ w[i][1] <= last
            /\ \A i \in 1 .. (Len(w) - 1) : w[i + 1][1] = w[i][2] + 1
            /\ w[1][1] <= first
            /\ first <= w[1][1] + 6
            /\ \A d \in first .. last :
                  Cardinality({i \in 1 .. Len(w) : w[i][1] <= d /\ d <= w[i][2]}) = 1

\* a month that needs six weeks, the first reaching back into the previous
\* month and the last reaching into the next one
C2_Witness ==
    /\ cal_call.fn = "get_weeks_in_month"
    /\ Len(cal_call.ret) = 6
    /\ cal_call.ret[1][1] < Date(cal_call.year, cal_call.month, 1)
    /\ cal_call.ret[6][2] >
          Date(cal_call.year, cal_call.month, DaysInMonth(cal_call.year, cal_call.month))

----------------------------------------------------------------------------
(* models.py: TimeEntry and its hour properties *)

\* datetime.time(hour, minute)
Time(h, m) == [hour |-> h, minute |-> m]

Minutes(n) == 60 * n

Hours(n) == 3600 * n

TimeEntry(d, dow, cin, lunch, cout, adj, atype, comment) ==
    [date |-> d, day_of_week |-> dow, clock_in |-> cin, lunch_duration |-> lunch,
     clock_out |-> cout, adjustment |-> adj, adjust_type |-> atype,
     comment |-> comment]

\* truth value of an optional timedelta: None and timedelta(0) are false
TruthyDuration(x) == IsSome(x) /\ Val(x) # 0

\* n / d rounded to the nearest integer, ties to the even one (d > 0)
RoundHalfEven(n, d) ==
    LET q == n \div d
        r == n - q * d
    IN  IF 2 * r < d THEN q
        ELSE IF 2 * r > d THEN q + 1
        ELSE IF q % 2 = 0 THEN q ELSE q + 1

\* Decimal(str(td.total_seconds() / 3600)).quantize(Decimal("0.01")), in hundredths
QuantizedHours(seconds) == RoundHalfEven(seconds, 36)

worked_hours_clamped(e) ==
    IF ~IsSome(e.clock_in) \/ ~IsSome(e.clock_out) THEN 0
    ELSE LET w == Hours(Val(e.clock_out).hour) + Minutes(Val(e.clock_out).minute)
                  - Hours(Val(e.clock_in).hour) - Minutes(Val(e.clock_in).minute)
                  - (IF TruthyDuration(e.lunch_duration) THEN Val(e.lunch_duration) ELSE 0)
         IN  IF w < 0 THEN 0 ELSE QuantizedHours(w)

worked_hours(e) ==
    IF ~IsSome(e.clock_in) \/ ~IsSome(e.clock_out) THEN 0
    ELSE LET start  == Hours(Val(e.clock_in).hour) + Minutes(Val(e.clock_in).minute)
             end    == Hours(Val(e.clock_out).hour) + Minutes(Val(e.clock_out).minute)
             lunch  == IF TruthyDuration(e.lunch_duration)
                       THEN Val(e.lunch_duration) ELSE 0
             worked == end - start - lunch
         IN  QuantizedHours(worked)

adjusted_hours_needs_type(e) ==
    IF ~TruthyDuration(e.adjustment) \/ ~IsSome(e.adjust_type) THEN 0
    ELSE QuantizedHours(Val(e.adjustment))

adjusted_hours(e) ==
    IF ~TruthyDuration(e.adjustment) THEN 0
    ELSE QuantizedHours(Val(e.adjustment))

total_hours_ignores_adjustment_when_worked(e) ==
    IF worked_hours(e) # 0 THEN worked_hours(e) ELSE adjusted_hours(e)

total_hours(e) == worked_hours(e) + adjusted_hours(e)

----------------------------------------------------------------------------
(* Reads of the hour properties of a TimeEntry *)

\* the hours and minutes the sample clock times are built from
SampleHours == {0, 9, 12, 17, 23}

SampleMinutes == {0, 15, 30, 59}

SampleTimes == {Time(h, m) : h \in SampleHours, m \in SampleMinutes}

\* lunch breaks: whole minutes, as every writer of the field produces them
SampleLunches == {None, Some(0), Some(Minutes(30)), Some(Minutes(45)), Some(Minutes(60))}

\* adjustments, with the two ties of the rounding (18 s, 54 s)
SampleAdjustments ==
    {None, Some(0), Some(18), Some(54), Some(Hours(4)),
     Some(Hours(3) + Minutes(45)), Some(Hours(7) + Minutes(30))}

SampleDate == Date(FirstYear + 2, 1, 15)

HourEntries ==
    {TimeEntry(SampleDate, DayName(SampleDate), cin, lunch, cout, adj, atype, None) :
        cin \in {None} \cup {Some(t) : t \in SampleTimes},
        cout \in {None} \cup {Some(t) : t \in SampleTimes},
        lunch \in SampleLunches,
        adj \in SampleAdjustments,
        atype \in {None, Some("L")}}

ReadWorkedHours ==
    /\ hrs_call' = [fn |-> "worked_hours", ret |-> worked_hours(hrs_entry)]
    /\ UNCHANGED <<cal_call, hrs_entry, config, time_entries, st_call,
                   tickets, ticket_allocations, appVars>>

ReadAdjustedHours ==
    /\ hrs_call' = [fn |-> "adjusted_hours", ret |-> adjusted_hours(hrs_entry)]
    /\ UNCHANGED <<cal_call, hrs_entry, config, time_entries, st_call,
                   tickets, ticket_allocations, appVars>>

ReadTotalHours ==
    /\ hrs_call' = [fn |-> "total_hours", ret |-> total_hours(hrs_entry)]
    /\ UNCHANGED <<cal_call, hrs_entry, config, time_entries, st_call,
                   tickets, ticket_allocations, appVars>>

InitHours ==
    /\ cal_call = NoCall
    /\ hrs_entry \in HourEntries
    /\ hrs_call = NoCall
    /\ config = EmptyTable
    /\ time_entries = EmptyTable
    /\ st_call = NoCall
    /\ tickets = EmptyTable
    /\ ticket_allocations = EmptyTable
    /\ AppNotRunning

NextHours == ReadWorkedHours \/ ReadAdjustedHours \/ ReadTotalHours

SpecHours == InitHours /\ [][NextHours]_vars

\* minutes since midnight of a clock time
MinuteOfDay(t) == 60 * t.hour + t.minute

\* clock_out - clock_in - lunch of an entry with both clock times, in minutes
NetMinutes(e) ==
    MinuteOfDay(Val(e.clock_out)) - MinuteOfDay(Val(e.clock_in))
    - (IF IsSome(e.lunch_duration) THEN Val(e.lunch_duration) \div 60 ELSE 0)

(* C3: worked_hours is 0 whenever clock_in or clock_out is absent; otherwise *)
(* it is (clock_out - clock_in - lunch) minutes / 60 rounded to two decimal  *)
(* places (at most half a hundredth away), an absent lunch counting as 0 and *)
(* a negative result returned as is.  09:00, lunch 30 m, 17:00 gives 7.50.   *)
C3_WorkedHours ==
    hrs_call.fn = "worked_hours" =>
        /\ (~IsSome(hrs_entry.clock_in) \/ ~IsSome(hrs_entry.clock_out))
              => hrs_call.ret = 0
        /\ (IsSome(hrs_entry.clock_in) /\ IsSome(hrs_entry.clock_out)) =>
              /\ Abs(100 * NetMinutes(hrs_entry) - 60 * hrs_call.ret) <= 30
              /\ NetMinutes(hrs_entry) < 0 => hrs_call.ret < 0
              /\ ( /\ hrs_entry.clock_in = Some(Time(9, 0))
                   /\ hrs_entry.lunch_duration = Some(Minutes(30))
                   /\ hrs_entry.clock_out = Some(Time(17, 0)) )
                    => hrs_call.ret = 750

\* clock-out before clock-in: the negative hours are returned
C3_Witness ==
    /\ hrs_call.fn = "worked_hours"
    /\ hrs_entry.clock_in = Some(Time(17, 30))
    /\ hrs_entry.clock_out = Some(Time(9, 15))
    /\ hrs_entry.lunch_duration = Some(Minutes(30))
    /\ hrs_call.ret = -875

(* C4: adjusted_hours is 0 when no adjustment is set; otherwise it is the    *)
(* adjustment in hours rounded to two decimal places (7h30m gives 7.50,      *)
(* 3h45m gives 3.75), whatever adjust_type and the clock fields are.         *)
C4_AdjustedHours ==
    hrs_call.fn = "adjusted_hours" =>
        /\ ~IsSome(hrs_entry.adjustment) => hrs_call.ret = 0
        /\ IsSome(hrs_entry.adjustment) =>
              /\ Abs(100 * Val(hrs_entry.adjustment) - 3600 * hrs_call.ret) <= 1800
              /\ hrs_entry.adjustment = Some(Hours(7) + Minutes(30)) => hrs_call.ret = 750
              /\ hrs_entry.adjustment = Some(Hours(3) + Minutes(45)) => hrs_call.ret = 375

\* an adjustment without a type on a day that also has clock times
C4_Witness ==
    /\ hrs_call.fn = "adjusted_hours"
    /\ hrs_entry.adjustment = Some(Hours(3) + Minutes(45))
    /\ hrs_entry.adjust_type = None
    /\ IsSome(hrs_entry.clock_in)
    /\ hrs_call.ret = 375

(* C5: total_hours = worked_hours + adjusted_hours; it is 0 for an empty     *)
(* entry, equals worked_hours when no adjustment is set and equals           *)
(* adjusted_hours when a clock time is missing.  3.5 h worked plus a 4 h     *)
(* adjustment gives 7.50.                                                    *)
C5_TotalHours ==
    hrs_call.fn = "total_hours" =>
        /\ hrs_call.ret = worked_hours(hrs_entry) + adjusted_hours(hrs_entry)
        /\ ( /\ ~IsSome(hrs_entry.clock_in)
             /\ ~IsSome(hrs_entry.clock_out)
             /\ ~IsSome(hrs_entry.adjustment) ) => hrs_call.ret = 0
        /\ ~IsSome(hrs_entry.adjustment) => hrs_call.ret = worked_hours(hrs_entry)
        /\ (~IsSome(hrs_entry.clock_in) \/ ~IsSome(hrs_entry.clock_out))
              => hrs_call.ret = adjusted_hours(hrs_entry)
        /\ ( /\ hrs_entry.clock_in = Some(Time(9, 0))
             /\ hrs_entry.clock_out = Some(Time(12, 30))
             /\ ~TruthyDuration(hrs_entry.lunch_duration)
             /\ hrs_entry.adjustment = Some(Hours(4)) ) => hrs_call.ret = 750

\* a morning worked and an afternoon of leave
C5_Witness ==
    /\ hrs_call.fn = "total_hours"
    /\ hrs_entry.clock_in = Some(Time(9, 0))
    /\ hrs_entry.clock_out = Some(Time(12, 30))
    /\ hrs_entry.lunch_duration = None
    /\ hrs_entry.adjustment = Some(Hours(4))
    /\ hrs_call.ret = 750

----------------------------------------------------------------------------
(* storage.py: the time_entries table *)

\* date.day
DayOf(d) == ord2ymd(d)[3]

\* date.isoformat(): the text YYYY-MM-DD, as its three fields
isoformat(d) == ord2ymd(d)

\* date.fromisoformat
fromisoformat(t) == Date(t[1], t[2], t[3])

\* _parse_time of a stored column: NULL or the text HH:MM, as its parts
_parse_time(val) ==
    IF ~IsSome(val) \/ Val(val) = <<>> THEN None
    ELSE Some(Time(Val(val)[1], Val(val)[2]))

_format_time_midnight_is_false(t) ==
    IF ~IsSome(t) \/ Val(t) = Time(0, 0) THEN None
    ELSE Some(<<Val(t).hour, Val(t).minute>>)

\* _format_time: strftime("%H:%M"), as the parts of the text
_format_time(t) ==
    IF ~IsSome(t) THEN None ELSE Some(<<Val(t).hour, Val(t).minute>>)

\* truth value of an INTEGER column: NULL and 0 are false
TruthyInt(x) == IsSome(x) /\ Val(x) # 0

_row_to_entry(row) ==
    LET lunch == IF TruthyInt(row.lunch_minutes)
                 THEN Some(Minutes(Val(row.lunch_minutes))) ELSE None
        adj   == IF TruthyInt(row.adjustment_minutes)
                 THEN Some(Minutes(Val(row.adjustment_minutes))) ELSE None
    IN  TimeEntry(fromisoformat(row.date), row.day_of_week,
                  _parse_time(row.clock_in), lunch, _parse_time(row.clock_out),
                  adj, row.adjust_type, row.comment)

\* the row save_entry binds to its INSERT OR REPLACE
EntryRow(entry) ==
    LET lunch_mins == IF TruthyDuration(entry.lunch_duration)
                      THEN Some(Val(entry.lunch_duration) \div 60) ELSE None
        adj_mins   == IF TruthyDuration(entry.adjustment)
                      THEN Some(Val(entry.adjustment) \div 60) ELSE None
    IN  [date |-> isoformat(entry.date),
         day_of_week |-> entry.day_of_week,
         clock_in |-> _format_time(entry.clock_in),
         lunch_minutes |-> lunch_mins,
         clock_out |-> _format_time(entry.clock_out),
         adjustment_minutes |-> adj_mins,
         adjust_type |-> entry.adjust_type,
         comment |-> entry.comment]

\* dict[key] = value on a Python dict (a function of its keys)
Upsert(dict, key, value) ==
    [k \in (DOMAIN dict) \cup {key} |-> IF k = key THEN value ELSE dict[k]]

\* the rows of time_entries with the given ISO date
RowsOfDate(table, iso) == {r \in table : r.date = iso}

save_entry_insert_only(table, entry) == table \cup {EntryRow(entry)}

\* save_entry: the table after INSERT OR REPLACE, which deletes the rows that
\* hold the new row's primary key (date) and inserts the new row
save_entry(table, entry) ==
    LET row == EntryRow(entry)
    IN  (table \ RowsOfDate(table, row.date)) \cup {row}

\* get_entry: None or the entry of the row fetchone() yields
get_entry(table, d) ==
    LET rows == RowsOfDate(table, isoformat(d))
    IN  IF rows = {} THEN None
        ELSE Some(_row_to_entry(CHOOSE r \in rows : TRUE))

----------------------------------------------------------------------------
(* storage.py: the config table *)

\* str(x) of a Decimal, the text save_config stores: its digits, written
\* here as the number of hundredths they denote
DecimalText(v) == [text |-> "decimal", hundredths |-> v]

\* Decimal(text) of a stored text
DecimalOfText(t) == t.hundredths

\* the rows of config with the given key
ConfigRows(table, key) == {r \in table : r.key = key}

\* INSERT OR REPLACE INTO config (key, value): the rows that hold the key
\* are deleted and the new row is inserted
config_replace(table, key, value) ==
    (table \ ConfigRows(table, key)) \cup {[key |-> key, value |-> value]}

\* a variant of save_config that keeps the value a key already has
save_config_keeps_stored(table, c) ==
    LET put(t, key, value) == IF ConfigRows(t, key) = {}
                              THEN config_replace(t, key, value) ELSE t
    IN  put(put(put(put(table, "hourly_rate", DecimalText(c.hourly_rate)),
                    "currency", c.currency),
                "standard_day_hours", DecimalText(c.standard_day_hours)),
            "vat_rate", DecimalText(c.vat_rate))

\* save_config: the table after its four INSERT OR REPLACE statements
save_config(table, c) ==
    config_replace(
        config_replace(
            config_replace(
                config_replace(table, "hourly_rate", DecimalText(c.hourly_rate)),
                "currency", c.currency),
            "standard_day_hours", DecimalText(c.standard_day_hours)),
        "vat_rate", DecimalText(c.vat_rate))

\* get_config: Config() with the value of each of the four keys that has a
\* row; rows with other keys are passed over
get_config(table) ==
    LET value(key) == (CHOOSE r \in ConfigRows(table, key) : TRUE).value
        has(key) == ConfigRows(table, key) # {}
    IN  [hourly_rate |-> IF has("hourly_rate") THEN DecimalOfText(value("hourly_rate"))
                         ELSE DefaultConfig.hourly_rate,
         currency |-> IF has("currency") THEN value("currency")
                      ELSE DefaultConfig.currency,
         standard_day_hours |-> IF has("standard_day_hours")
                                THEN DecimalOfText(value("standard_day_hours"))
                                ELSE DefaultConfig.standard_day_hours,
         vat_rate |-> IF has("vat_rate") THEN DecimalOfText(value("vat_rate"))
                      ELSE DefaultConfig.vat_rate]

----------------------------------------------------------------------------
(* storage.py: public holidays *)

Holiday(d, name) == [date |-> d, name |-> name]

\* the names of the holidays
NewYearsDay == Text("New Year's Day")

GoodFriday == Text("Good Friday")

EasterMonday == Text("Easter Monday")

MayDay == Text("May Day")

SpringBankHoliday == Text("Spring Bank Holiday")

LateSummerBankHoliday == Text("Late Summer Bank Holiday")

ChristmasDay == Text("Christmas Day")

BoxingDay == Text("Boxing Day")

BoxingDayObserved == Text("Boxing Day (observed)")

ChristmasDayObserved == Text("Christmas Day (observed)")

BankHoliday == Text("Bank Holiday")

\* get_uk_holidays: the England bank holidays the holidays library lists
get_uk_holidays(year) ==
    IF year = 2026 THEN
        << Holiday(Date(2026, 1, 1), NewYearsDay),
           Holiday(Date(2026, 4, 3), GoodFriday),
           Holiday(Date(2026, 4, 6), EasterMonday),
           Holiday(Date(2026, 5, 4), MayDay),
           Holiday(Date(2026, 5, 25), SpringBankHoliday),
           Holiday(Date(2026, 8, 31), LateSummerBankHoliday),
           Holiday(Date(2026, 12, 25), ChristmasDay),
           Holiday(Date(2026, 12, 26), BoxingDay),
           Holiday(Date(2026, 12, 28), BoxingDayObserved) >>
    ELSE IF year = 2027 THEN
        << Holiday(Date(2027, 1, 1), NewYearsDay),
           Holiday(Date(2027, 3, 26), GoodFriday),
           Holiday(Date(2027, 3, 29), EasterMonday),
           Holiday(Date(2027, 5, 3), MayDay),
           Holiday(Date(2027, 5, 31), SpringBankHoliday),
           Holiday(Date(2027, 8, 30), LateSummerBankHoliday),
           Holiday(Date(2027, 12, 25), ChristmasDay),
           Holiday(Date(2027, 12, 26), BoxingDay),
           Holiday(Date(2027, 12, 27), ChristmasDayObserved),
           Holiday(Date(2027, 12, 28), BoxingDayObserved) >>
    ELSE <<>>

IsWeekdayIn(h, start, end) == start <= h.date /\ h.date <= end /\ weekday(h.date) < 5

get_holidays_in_range_with_weekends(start, end) ==
    SelectSeq(get_uk_holidays(YearOf(start)),
              LAMBDA h : start <= h.date /\ h.date <= end)

get_holidays_in_range(start, end) ==
    LET uk_holidays == IF YearOf(start) # YearOf(end)
                       THEN get_uk_holidays(YearOf(start)) \o get_uk_holidays(YearOf(end))
                       ELSE get_uk_holidays(YearOf(start))
    IN  SelectSeq(uk_holidays, LAMBDA h : IsWeekdayIn(h, start, end))

\* the entry populate_holidays builds for a holiday; standard_hours in hundredths
HolidayEntry(h, standard_hours) ==
    TimeEntry(h.date, DayName(h.date), None, None, None,
              Some(36 * standard_hours), Some("P"), Some(h.name))

\* the test of populate_holidays: no entry, or an entry "with no data"
holiday_slot_free_always(existing) == TRUE

holiday_slot_free(existing) ==
    \/ ~IsSome(existing)
    \/ (~IsSome(Val(existing).clock_in) /\ ~TruthyDuration(Val(existing).adjustment))

\* the loop of populate_holidays from the i-th holiday on;
\* acc = [table, count, written]: the table, the count and the dates saved so far
RECURSIVE populate_loop(_, _, _, _)
populate_loop(holidays_in_month, i, standard_hours, acc) ==
    IF i > Len(holidays_in_month) THEN acc
    ELSE LET h        == holidays_in_month[i]
             existing == get_entry(acc.table, h.date)
         IN  IF holiday_slot_free(existing)
             THEN populate_loop(holidays_in_month, i + 1, standard_hours,
                     [table   |-> save_entry(acc.table, HolidayEntry(h, standard_hours)),
                      count   |-> acc.count + 1,
                      written |-> acc.written \cup {h.date}])
             ELSE populate_loop(holidays_in_month, i + 1, standard_hours, acc)

populate_holidays(table, year, month, standard_hours) ==
    LET start == Date(year, month, 1)
        end   == Date(year, month, DaysInMonth(year, month))
    IN  populate_loop(get_holidays_in_range(start, end), 1, standard_hours,
                      [table |-> table, count |-> 0, written |-> {}])

----------------------------------------------------------------------------
(* app.py: the application's test for an entry without data *)

_entry_is_blank(entry) ==
    /\ ~IsSome(entry.clock_in)
    /\ ~IsSome(entry.clock_out)
    /\ ~IsSome(entry.adjustment)

----------------------------------------------------------------------------
(* Calls of populate_holidays on a store that already holds entries *)

\* the year whose months are populated
PopYear == FirstYear + 2

\* the months populate_holidays is called for: with one holiday, with none,
\* with two, and with holidays on a Friday, a Saturday and a Monday
PopMonths == {1, 2, 4, 12}

PopulateCalls == {<<PopYear, m>> : m \in PopMonths} \cup {<<PopYear + 1, 1>>}

\* standard day lengths in hundredths of an hour: none, 36 s, 72 s, 7.33 h, 7.5 h
StdChoices == {0, 1, 2, 733, 750}

BlankDay(d) == TimeEntry(d, DayName(d), None, None, None, None, None, None)

ClockInOnly(d) ==
    TimeEntry(d, DayName(d), Some(Time(9, 0)), None, None, None, None, None)

ClockOutOnly(d) ==
    TimeEntry(d, DayName(d), None, None, Some(Time(17, 0)), None, None, None)

FullDay(d) ==
    TimeEntry(d, DayName(d), Some(Time(9, 0)), Some(Minutes(30)), Some(Time(17, 30)),
              None, None, Some(Worked))

LeaveDay(d) ==
    TimeEntry(d, DayName(d), None, None, None, Some(Hours(7) + Minutes(30)),
              Some("L"), None)

CommentOnly(d) ==
    TimeEntry(d, DayName(d), None, None, None, None, None, Some(Note))

\* what the store may hold for a date before the call: nothing, or one entry
AnyEntry(d) ==
    {None, Some(BlankDay(d)), Some(ClockInOnly(d)), Some(ClockOutOnly(d)),
     Some(FullDay(d)), Some(LeaveDay(d)), Some(CommentOnly(d))}

SaveIfAny(table, e) == IF IsSome(e) THEN save_entry(table, Val(e)) ELSE table

\* stores written by save_entry: any entry on 25 December, some on the 26th,
\* on the 24th (no holiday) and on 1 January
InitialStores ==
    {SaveIfAny(SaveIfAny(SaveIfAny(SaveIfAny(EmptyTable, a), b), c), d) :
        a \in AnyEntry(Date(PopYear, 12, 25)),
        b \in {None, Some(FullDay(Date(PopYear, 12, 26))),
               Some(ClockOutOnly(Date(PopYear, 12, 26)))},
        c \in {None, Some(CommentOnly(Date(PopYear, 12, 24)))},
        d \in {None, Some(ClockOutOnly(Date(PopYear, 1, 1)))}}

CallPopulateHolidays ==
    /\ \E c \in PopulateCalls :
          LET r == populate_holidays(time_entries, c[1], c[2],
                                     get_config(config).standard_day_hours)
          IN  /\ time_entries' = r.table
              /\ st_call' = [fn |-> "populate_holidays", year |-> c[1], month |-> c[2],
                             standard_hours |-> get_config(config).standard_day_hours,
                             ret |-> r.count, written |-> r.written]
    /\ UNCHANGED <<pureVars, config, tickets, ticket_allocations, appVars>>

InitHol ==
    /\ cal_call = NoCall
    /\ hrs_entry = None
    /\ hrs_call = NoCall
    /\ config \in {save_config(EmptyTable, [DefaultConfig EXCEPT !.standard_day_hours = h]) :
                      h \in StdChoices}
    /\ time_entries \in InitialStores
    /\ st_call = NoCall
    /\ tickets = EmptyTable
    /\ ticket_allocations = EmptyTable
    /\ AppNotRunning

NextHol == CallPopulateHolidays

SpecHol == InitHol /\ [][NextHol]_vars

\* the public holidays of a month that fall on Monday to Friday
WeekdayHolidays(year, month) ==
    {h \in {get_uk_holidays(year)[i] : i \in 1 .. Len(get_uk_holidays(year))} :
        /\ Date(year, month, 1) <= h.date
        /\ h.date <= Date(year, month, DaysInMonth(year, month))
        /\ weekday(h.date) \in 0 .. 4}

\* the table holds the same row, or the same absence, for key k
SameAt(k, before, after) == RowsOfDate(after, k) = RowsOfDate(before, k)

\* calling populate_holidays again with the arguments of the last call
\* returns 0 and leaves the table as it is
SecondCallIsNoOp ==
    LET again == populate_holidays(time_entries, st_call.year, st_call.month,
                                   st_call.standard_hours)
    IN  again.count = 0 /\ again.table = time_entries

(* C8 as stated: populate_holidays is idempotent for every (year, month),   *)
(* every standard day length and every initial store: right after a call, a *)
(* second call returns 0 and leaves the store as the first call left it.    *)
C8_IdempotentForEveryStd ==
    st_call.fn = "populate_holidays" => SecondCallIsNoOp

(* C8 as amended: the same, for every standard day length of at least one   *)
(* minute.                                                                  *)
C8_IdempotentFromOneMinute ==
    (st_call.fn = "populate_holidays" /\ 36 * st_call.standard_hours >= 60)
        => SecondCallIsNoOp

\* a first call that created the two April holidays, with a 72 s standard day
C8_Witness ==
    /\ st_call.fn = "populate_holidays"
    /\ st_call.month = 4
    /\ st_call.standard_hours = 2
    /\ st_call.ret = 2
    /\ Cardinality(st_call.written) = 2

(* C9: populate_holidays never overwrites an existing non-blank entry: an   *)
(* entry that carries a clock-in, a clock-out or an adjustment is the same  *)
(* before and after the call, and is not counted.                           *)
C9_NonBlankEntriesKept ==
    [][ st_call'.fn = "populate_holidays" =>
          \A r \in time_entries :
              ~_entry_is_blank(_row_to_entry(r)) =>
                  /\ SameAt(r.date, time_entries, time_entries')
                  /\ fromisoformat(r.date) \notin st_call'.written ]_vars

\* the entry populate_holidays has written for date d, read back
WrittenEntry(table, d) == Val(get_entry(table, d))

\* what C10 says of a call apart from the adjustment it writes
PopulateWritesOnlyHolidays(before, after, call) ==
    LET hols == WeekdayHolidays(call.year, call.month)
    IN  /\ \A d \in call.written :
              /\ \E h \in hols :
                    /\ h.date = d
                    /\ WrittenEntry(after, d).comment = Some(h.name)
              /\ WrittenEntry(after, d).adjust_type = Some("P")
              /\ WrittenEntry(after, d).clock_in = None
              /\ WrittenEntry(after, d).clock_out = None
        /\ call.ret = Cardinality(call.written)
        /\ \A k \in {r.date : r \in before \cup after} :
              fromisoformat(k) \notin call.written => SameAt(k, before, after)

(* C10 as stated: populate_holidays(year, month, std) writes entries only   *)
(* for public holidays on Monday-Friday inside that month; each entry it    *)
(* writes has adjustment = std hours, adjust_type P, comment = the holiday  *)
(* name and no clock times; the count returned is the number of entries     *)
(* written; entries of all other dates are unchanged.                       *)
C10_WritesStdHours ==
    [][ st_call'.fn = "populate_holidays" =>
          /\ PopulateWritesOnlyHolidays(time_entries, time_entries', st_call')
          /\ \A d \in st_call'.written :
                WrittenEntry(time_entries', d).adjustment
                    = Some(36 * st_call'.standard_hours) ]_vars

(* C10 as amended: the same, except that the adjustment written is std      *)
(* hours cut down to whole minutes, and absent when that is zero minutes.   *)
C10_WritesStdWholeMinutes ==
    [][ st_call'.fn = "populate_holidays" =>
          /\ PopulateWritesOnlyHolidays(time_entries, time_entries', st_call')
          /\ \A d \in st_call'.written :
                LET mins == (36 * st_call'.standard_hours) \div 60
                IN  WrittenEntry(time_entries', d).adjustment
                        = IF mins = 0 THEN None ELSE Some(60 * mins) ]_vars

\* December populated with a 7.33 h day: Christmas Day and the Monday after
\* Boxing Day are written with 439 minutes, the Saturday is not
C10_Witness ==
    /\ st_call.fn = "populate_holidays"
    /\ st_call.year = PopYear
    /\ st_call.month = 12
    /\ st_call.standard_hours = 733
    /\ st_call.ret = Cardinality(st_call.written)
    /\ st_call.ret >= 1
    /\ \A d \in st_call.written :
          /\ weekday(d) < 5
          /\ WrittenEntry(time_entries, d).adjustment = Some(Minutes(439))

----------------------------------------------------------------------------
(* The text typed into input fields *)

\* One part of a field's text: a numeral ("30"), a decimal number with up to
\* two places ("7.5", n hundredths), or text that is no number ("abc").
IntTok(n) == [kind |-> "int", n |-> n]

DecTok(n) == [kind |-> "dec", n |-> n]

JunkTok == [kind |-> "junk", n |-> 0]

\* the text "nan", which float() and Decimal() accept as not-a-number
NanTok == [kind |-> "nan", n |-> 0]

\* the empty text of a field
NoText == <<>>

\* Python's int(text): raises ValueError unless the text is a numeral
int_raises(tok) == tok.kind # "int"

int_value(tok) == tok.n

\* Python's float(text), in hundredths: raises ValueError for text that is
\* no number
float_raises(tok) == tok.kind \notin {"int", "dec", "nan"}

\* timedelta(hours=x) raises ValueError for not-a-number; so does comparing
\* a Decimal not-a-number (InvalidOperation)
is_nan(tok) == tok.kind = "nan"

float_value(tok) == IF tok.kind = "int" THEN 100 * tok.n ELSE tok.n

\* the letters the editor accepts as adjust type
AdjustTypeLetters == {"L", "S", "T", "P"}

\* each of these letters as the str it is
AdjustTypeText == [l \in AdjustTypeLetters |-> Text(l)]

----------------------------------------------------------------------------
(* screens.py: EditDayScreen *)

\* datetime.time(hour, minute) raises ValueError outside 0..23 and 0..59
time_raises(h, m) == ~(h \in 0..23 /\ m \in 0..59)

\* EditDayScreen._parse_time: None for empty text and for text that is not
\* HH:MM (the ValueError or IndexError is caught)
EditDay_parse_time(val) ==
    IF val = NoText THEN None
    ELSE IF Len(val) < 2 THEN None
    ELSE IF int_raises(val[1]) \/ int_raises(val[2]) THEN None
    ELSE IF time_raises(int_value(val[1]), int_value(val[2])) THEN None
    ELSE Some(Time(int_value(val[1]), int_value(val[2])))

\* the values compose() gives the six inputs of the editor for an entry
EditDayFields(entry) ==
    [clock_in |-> IF IsSome(entry.clock_in)
                  THEN <<IntTok(Val(entry.clock_in).hour), IntTok(Val(entry.clock_in).minute)>>
                  ELSE NoText,
     lunch |-> IF TruthyDuration(entry.lunch_duration)
               THEN <<IntTok(Val(entry.lunch_duration) \div 60)>>
               ELSE NoText,
     clock_out |-> IF IsSome(entry.clock_out)
                   THEN <<IntTok(Val(entry.clock_out).hour), IntTok(Val(entry.clock_out).minute)>>
                   ELSE NoText,
     adjustment |-> IF TruthyDuration(entry.adjustment)
                    THEN <<DecTok(adjusted_hours(entry))>>
                    ELSE NoText,
     adjust_type |-> IF IsSome(entry.adjust_type) THEN Text(Val(entry.adjust_type))
                     ELSE EmptyText,
     comment |-> IF IsSome(entry.comment) THEN Val(entry.comment) ELSE EmptyText]

\* EditDayScreen(entry) as push_screen(screen, callback) puts it on the stack
EditDayScreen(entry, callback) ==
    [kind |-> "EditDayScreen", entry |-> entry, callback |-> callback,
     fields |-> EditDayFields(entry)]

\* a notification as App.notify(message, severity=...) shows it
Notice(message, severity) == [message |-> message, severity |-> severity]

\* what a handler of a modal screen ends with: an exception nothing catches,
\* a notification with the screen left open, or dismiss(result)
Raises(exc) == [kind |-> "raise", exc |-> exc]

Notifies(message, severity) == [kind |-> "notify", notice |-> Notice(message, severity)]

Dismisses(result) == [kind |-> "dismiss", result |-> result]

\* EditDayScreen._save_entry on the editor's entry and the text of its fields
EditDay_save_entry(entry, fields) ==
    LET clock_in == EditDay_parse_time(fields.clock_in)
        clock_out == EditDay_parse_time(fields.clock_out)
        lunch_val == fields.lunch
        adj_val == fields.adjustment
        adjust_type_val == upper(strip(fields.adjust_type))
        adjust_type == IF \E l \in AdjustTypeLetters : adjust_type_val = AdjustTypeText[l]
                       THEN Some(CHOOSE l \in AdjustTypeLetters :
                                     adjust_type_val = AdjustTypeText[l])
                       ELSE None
        comment == IF strip(fields.comment) # EmptyText
                   THEN Some(strip(fields.comment)) ELSE None
    IN  IF lunch_val # NoText /\ int_raises(lunch_val[1]) THEN Raises("ValueError")
        ELSE IF adj_val # NoText /\ (float_raises(adj_val[1]) \/ is_nan(adj_val[1]))
             THEN Raises("ValueError")
        ELSE
          LET lunch == IF lunch_val # NoText
                       THEN Some(Minutes(int_value(lunch_val[1]))) ELSE None
              adjustment == IF adj_val # NoText
                            THEN Some(36 * float_value(adj_val[1])) ELSE None
          IN  IF strip(fields.adjust_type) # EmptyText /\ ~IsSome(adjust_type)
              THEN Notifies("Invalid adjust type. Use L, S, T, or P", "error")
              ELSE IF TruthyDuration(adjustment) /\ ~IsSome(adjust_type)
              THEN Notifies("Adjustment hours require an adjust type", "error")
              ELSE Dismisses(Some(TimeEntry(entry.date, entry.day_of_week, clock_in,
                                            lunch, clock_out, adjustment, adjust_type,
                                            comment)))

----------------------------------------------------------------------------
(* screens.py: EditAllocationScreen *)

\* EditAllocationScreen(ticket, current_hours) as push_screen puts it on the
\* stack; the one input holds current_hours
EditAllocationScreen(ticket_id, current_hours) ==
    [kind |-> "EditAllocationScreen", ticket_id |-> ticket_id,
     callback |-> "_on_allocation_edited", fields |-> [hours |-> current_hours]]

\* EditAllocationScreen._save on the text of the hours input
EditAllocation_save(ticket_id, fields) ==
    LET hours_str == fields.hours
    IN  IF hours_str = NoText THEN Notifies("Hours is required", "error")
        ELSE IF float_raises(hours_str[1]) THEN Notifies("Invalid hours value", "error")
        ELSE IF ~is_nan(hours_str[1]) /\ float_value(hours_str[1]) < 0
             THEN Notifies("Hours must be positive", "error")
        ELSE Dismisses(Some(<<ticket_id, hours_str>>))

----------------------------------------------------------------------------
(* storage.py: ranges of entries, tickets and allocations *)

\* order of two ISO date texts as SQLite compares them: character by
\* character, which for zero-padded YYYY-MM-DD is year, then month, then day
IsoLE(a, b) ==
    \/ a[1] < b[1]
    \/ a[1] = b[1] /\ a[2] < b[2]
    \/ a[1] = b[1] /\ a[2] = b[2] /\ a[3] <= b[3]

\* the rows of a set in ascending order of their date (ORDER BY date)
RECURSIVE OrderByDate(_)
OrderByDate(rows) ==
    IF rows = {} THEN <<>>
    ELSE LET first == CHOOSE r \in rows : \A o \in rows : IsoLE(r.date, o.date)
         IN  <<first>> \o OrderByDate(rows \ {first})

get_entries_range_before_end(table, start, end) ==
    LET rows == {r \in table : IsoLE(isoformat(start), r.date) /\ r.date # isoformat(end)
                                /\ IsoLE(r.date, isoformat(end))}
        ordered == OrderByDate(rows)
    IN  [i \in 1..Len(ordered) |-> _row_to_entry(ordered[i])]

\* get_entries_range: the entries with start <= date <= end, by date
get_entries_range(table, start, end) ==
    LET rows == {r \in table : IsoLE(isoformat(start), r.date) /\ IsoLE(r.date, isoformat(end))}
        ordered == OrderByDate(rows)
    IN  [i \in 1..Len(ordered) |-> _row_to_entry(ordered[i])]

\* get_month_entries: the entries of one calendar month
get_month_entries(table, year, month) ==
    get_entries_range(table, Date(year, month, 1), Date(year, month, DaysInMonth(year, month)))

\* the ids and descriptions of the tickets the stores start with
T1 == Text("T1")

T2 == Text("T2")

Support == Text("Support")

Project == Text("Project")

Renamed == Text("Renamed")

\* a Ticket, as _row_to_ticket builds it
Ticket(id, description, archived, created_at) ==
    [id |-> id, description |-> description, archived |-> archived,
     created_at |-> created_at]

\* save_ticket: the table after the call; created_at defaults to today
save_ticket(table, ticket, today) ==
    LET row == [id |-> ticket.id, description |-> ticket.description,
                archived |-> IF ticket.archived THEN 1 ELSE 0,
                created_at |-> isoformat(IF IsSome(ticket.created_at)
                                         THEN Val(ticket.created_at) ELSE today)]
    IN  {r \in table : r.id # row.id} \cup {row}

\* get_ticket: None or the ticket of the row
get_ticket(table, ticket_id) ==
    LET rows == {r \in table : r.id = ticket_id}
    IN  IF rows = {} THEN None
        ELSE LET row == CHOOSE r \in rows : TRUE
             IN  Some(Ticket(row.id, row.description, row.archived # 0,
                             Some(fromisoformat(row.created_at))))

\* a variant of get_all_tickets_active that lists the archived tickets too
get_all_tickets_with_archived(table) == {r.id : r \in table}

\* the ids of get_all_tickets(include_archived=False)
get_all_tickets_active(table) == {r.id : r \in {t \in table : t.archived = 0}}

\* the ids of get_all_tickets(include_archived)
get_all_tickets(table, include_archived) ==
    IF include_archived THEN {r.id : r \in table} ELSE get_all_tickets_active(table)

\* the ids of search_tickets(query, include_archived): the tickets whose id
\* or description is LIKE %query%
search_tickets(table, query, include_archived) ==
    LET pattern == <<37>> \o query \o <<37>>
    IN  {r.id : r \in {t \in table :
                          /\ like(pattern, t.id) \/ like(pattern, t.description)
                          /\ include_archived \/ t.archived = 0}}

\* the keys of the rows _refresh_table(search) of the ticket management
\* screen and of the ticket selector puts in the table
TicketsListed(table, search, show_archived) ==
    IF search # EmptyText THEN search_tickets(table, search, show_archived)
    ELSE get_all_tickets(table, show_archived)

\* a notification whose message names a ticket: the message with
\* {ticket_id} in the place of the id, and the id
TicketNotice(message, ticket_id, severity) ==
    [message |-> message, ticket_id |-> ticket_id, severity |-> severity]

\* decimal.Decimal(text) of the text of a number: the value in hundredths and
\* the digits kept after the point, none for a numeral
Decimal(tok) == [hundredths |-> float_value(tok), point |-> tok.kind = "dec"]

\* str(x) of a Decimal: the digits it was made from, a numeral for a Decimal
\* without digits after the point
str(x) == IF x.point THEN DecTok(x.hundredths) ELSE IntTok(x.hundredths \div 100)

\* a TicketAllocation; hours a Decimal
TicketAllocation(ticket_id, d, hours, entered_on_client) ==
    [ticket_id |-> ticket_id, date |-> d, hours |-> hours,
     entered_on_client |-> entered_on_client]

\* the rows of ticket_allocations with the given ticket id and ISO date; the
\* column id (AUTOINCREMENT) is read nowhere and is left out of the rows
AllocationRows(table, ticket_id, iso) ==
    {r \in table : r.ticket_id = ticket_id /\ r.date = iso}

save_allocation_insert_only(table, allocation) ==
    table \cup {[ticket_id |-> allocation.ticket_id,
                 date |-> isoformat(allocation.date),
                 hours |-> str(allocation.hours),
                 entered_on_client |-> IF allocation.entered_on_client THEN 1 ELSE 0]}

\* save_allocation: the table after INSERT OR REPLACE, which deletes the rows
\* that hold the new row's UNIQUE(ticket_id, date) pair and inserts the new row
save_allocation(table, allocation) ==
    LET row == [ticket_id |-> allocation.ticket_id,
                date |-> isoformat(allocation.date),
                hours |-> str(allocation.hours),
                entered_on_client |-> IF allocation.entered_on_client THEN 1 ELSE 0]
    IN  (table \ AllocationRows(table, row.ticket_id, row.date)) \cup {row}

\* delete_allocation: the table after the call
delete_allocation(table, ticket_id, d) ==
    table \ AllocationRows(table, ticket_id, isoformat(d))

\* _row_to_allocation
_row_to_allocation(row) ==
    TicketAllocation(row.ticket_id, fromisoformat(row.date), Decimal(row.hours),
                     row.entered_on_client # 0)

\* the rows of a set in ascending order of their ticket id (ORDER BY
\* ticket_id, which compares the texts code point by code point)
RECURSIVE OrderByTicketId(_)
OrderByTicketId(rows) ==
    IF rows = {} THEN <<>>
    ELSE LET first == CHOOSE r \in rows :
                          \A o \in rows : TextLE(r.ticket_id, o.ticket_id)
         IN  <<first>> \o OrderByTicketId(rows \ {first})

\* get_allocations_for_date: the allocations of one date, by ticket id
get_allocations_for_date(table, d) ==
    LET ordered == OrderByTicketId({r \in table : r.date = isoformat(d)})
    IN  [i \in 1..Len(ordered) |-> _row_to_allocation(ordered[i])]

----------------------------------------------------------------------------
(* app.py: TimesheetApp *)

\* the date date.today() returns while the application runs (a Friday)
Today == Date(2026, 10, 30)

\* a variant of _find_week_for_date that always answers the first week
_find_week_for_date_first_week(weeks, d) == 0

\* _find_week_for_date: index (from 0) of the first week that holds d, else 0
_find_week_for_date(weeks, d) ==
    LET hits == {i \in 1..Len(weeks) : weeks[i][1] <= d /\ d <= weeks[i][2]}
    IN  IF hits = {} THEN 0
        ELSE (CHOOSE i \in hits : \A j \in hits : i <= j) - 1

\* _load_month_data: the cache {e.date: e} of the month's stored entries
_load_month_data(table, year, month) ==
    LET found == get_month_entries(table, year, month)
    IN  [d \in {found[i].date : i \in 1..Len(found)} |->
            (CHOOSE e \in {found[i] : i \in 1..Len(found)} : e.date = d)]

\* _get_or_create_entry: the cached entry of d, or a new one without values
_get_or_create_entry(entries, d) ==
    IF d \in DOMAIN entries THEN entries[d]
    ELSE TimeEntry(d, DayName(d), None, None, None, None, None, None)

\* _get_selected_date: the date in the key of the week table's cursor row;
\* week_table holds the keys of the rows the last _refresh_week_display added
_get_selected_date(a) == a.week_table[a.cursor_row + 1]

\* the row (0..6) of the current week that holds d, None when none does
RowOfDate(a, d) ==
    LET week_start == a.weeks[a.current_week_idx + 1][1]
    IN  IF d - week_start \in 0..6 THEN Some(d - week_start) ELSE None

\* _select_date: the week table's cursor moves to the row of target, if any
_select_date(a, target) ==
    IF IsSome(RowOfDate(a, target))
    THEN [a EXCEPT !.cursor_row = Val(RowOfDate(a, target))]
    ELSE a

\* _refresh_week_display: table.clear() puts the week table's cursor on its
\* first row, and the seven days of the current week are added as rows
_refresh_week_display(a) ==
    LET week_start == a.weeks[a.current_week_idx + 1][1]
    IN  [a EXCEPT !.week_table = [i \in 1..7 |-> week_start + (i - 1)],
                  !.cursor_row = 0]

\* _refresh_display: the week view rebuilds the week table, the day view
\* reloads the allocations of its date; the other views redraw tables of
\* their own
_refresh_display(a, allocations) ==
    IF a.view_mode = "week" THEN _refresh_week_display(a)
    ELSE IF a.view_mode = "day" /\ IsSome(a.day_view_date)
    THEN [a EXCEPT !.day_allocations =
                       get_allocations_for_date(allocations, Val(a.day_view_date))]
    ELSE a

\* table.move_cursor(row=row) on the week table
move_cursor(a, row) == [a EXCEPT !.cursor_row = row]

\* the attributes after __init__ and on_mount
AppStarted(table, allocations, today) ==
    LET year == YearOf(today)
        month == MonthOf(today)
        weeks == get_weeks_in_month(year, month)
        constructed ==
            [view_mode |-> "week",
             current_year |-> year,
             current_month |-> month,
             weeks |-> weeks,
             current_week_idx |-> _find_week_for_date(weeks, today),
             entries |-> _load_month_data(table, year, month),
             company_year_start |-> IF month >= 9 THEN year ELSE year - 1,
             day_clipboard |-> None,
             last_selected_date |-> None,
             day_view_date |-> None,
             day_allocations |-> <<>>,
             allocation_target_date |-> None,
             edit_row |-> None,
             week_table |-> <<>>,
             cursor_row |-> 0,
             show_money |-> FALSE]
    IN  _select_date(_refresh_display(constructed, allocations), today)

\* the application runs and no modal screen takes the keys
AppAcceptsKeys == app # None /\ ~crashed /\ screen = None

\* a modal screen of the given kind is open and takes the keys
ModalOpen(kind) == app # None /\ ~crashed /\ screen # None /\ screen.kind = kind

\* the screen the dismissal of s uncovers: the modal screen s was pushed on
\* top of, or none when s was pushed on the application's own screen
screen_under(s) == IF "under" \in DOMAIN s THEN s.under ELSE None

storeVars == <<config, time_entries, tickets, ticket_allocations, st_call>>

UiEvent(fn) == [fn |-> fn]

\* action_edit_day, week view: edit the cached entry of the cursor's row
action_edit_day_week ==
    /\ AppAcceptsKeys
    /\ app.view_mode = "week"
    /\ LET selected_date == _get_selected_date(app)
           entry == _get_or_create_entry(app.entries, selected_date)
       IN  /\ app' = [app EXCEPT !.edit_row = Some(app.cursor_row)]
           /\ screen' = EditDayScreen(entry, "_on_edit_complete")
    /\ notice' = None
    /\ ui_event' = UiEvent("action_edit_day")
    /\ UNCHANGED <<pureVars, storeVars, crashed>>

\* action_edit_day, day view: edit the stored entry of the day shown
action_edit_day_day ==
    /\ AppAcceptsKeys
    /\ app.view_mode = "day"
    /\ IsSome(app.day_view_date)
    /\ LET d == Val(app.day_view_date)
           stored == get_entry(time_entries, d)
           entry == IF IsSome(stored) THEN Val(stored)
                    ELSE TimeEntry(d, DayName(d), None, None, None, None, None, None)
       IN  screen' = EditDayScreen(entry, "_on_day_edit_complete")
    /\ notice' = None
    /\ ui_event' = UiEvent("action_edit_day")
    /\ UNCHANGED <<pureVars, storeVars, app, crashed>>

action_edit_day == action_edit_day_week \/ action_edit_day_day

\* _navigate_to_day_view(d): the attributes after it, and the editor it
\* opens when the day has neither worked nor adjusted hours
_navigate_to_day_view(a, d, allocations) ==
    _refresh_display([a EXCEPT !.day_view_date = Some(d),
                               !.last_selected_date = Some(d),
                               !.view_mode = "day"], allocations)

AutoEditScreen(table, d) ==
    LET stored == get_entry(table, d)
    IN  IF ~IsSome(stored)
        THEN EditDayScreen(TimeEntry(d, DayName(d), None, None, None, None, None, None),
                           "_on_day_edit_complete")
        ELSE IF worked_hours(Val(stored)) = 0 /\ adjusted_hours(Val(stored)) = 0
        THEN EditDayScreen(Val(stored), "_on_day_edit_complete")
        ELSE None

\* on_data_table_row_selected in week view: Enter on the cursor's row goes
\* to the day view of that date
row_selected_week ==
    /\ AppAcceptsKeys
    /\ app.view_mode = "week"
    /\ LET selected_date == _get_selected_date(app)
       IN  /\ app' = _navigate_to_day_view(app, selected_date, ticket_allocations)
           /\ screen' = AutoEditScreen(time_entries, selected_date)
    /\ notice' = None
    /\ ui_event' = UiEvent("on_data_table_row_selected")
    /\ UNCHANGED <<pureVars, storeVars, crashed>>

\* on_data_table_row_selected in day view: Enter on the row of an allocation
\* opens its editor (_edit_allocation), which captures the target date
\* first and then returns without a screen when the ticket is not stored
row_selected_day ==
    /\ AppAcceptsKeys
    /\ app.view_mode = "day"
    /\ IsSome(app.day_view_date)
    /\ \E i \in 1..Len(app.day_allocations) :
          LET alloc == app.day_allocations[i]
          IN  screen' = IF IsSome(get_ticket(tickets, alloc.ticket_id))
                        THEN EditAllocationScreen(alloc.ticket_id, <<str(alloc.hours)>>)
                        ELSE None
    /\ app' = [app EXCEPT !.allocation_target_date = app.day_view_date]
    /\ notice' = None
    /\ ui_event' = UiEvent("on_data_table_row_selected")
    /\ UNCHANGED <<pureVars, storeVars, crashed>>

on_data_table_row_selected == row_selected_week \/ row_selected_day

\* action_back_to_week: from the day view to the week that holds its date
action_back_to_week ==
    /\ AppAcceptsKeys
    /\ app.view_mode = "day"
    /\ LET target == app.day_view_date
           moved ==
               IF ~IsSome(target) THEN app
               ELSE LET y == YearOf(Val(target))
                        m == MonthOf(Val(target))
                        switched ==
                            IF y # app.current_year \/ m # app.current_month
                            THEN [app EXCEPT !.current_year = y,
                                             !.current_month = m,
                                             !.weeks = get_weeks_in_month(y, m),
                                             !.entries = _load_month_data(time_entries, y, m)]
                            ELSE app
                    IN  [switched EXCEPT
                            !.current_week_idx = _find_week_for_date(switched.weeks, Val(target)),
                            !.last_selected_date = target]
           shown == _refresh_display([moved EXCEPT !.view_mode = "week"], ticket_allocations)
       IN  app' = IF IsSome(target) THEN _select_date(shown, Val(target)) ELSE shown
    /\ notice' = None
    /\ ui_event' = UiEvent("action_back_to_week")
    /\ UNCHANGED <<pureVars, storeVars, screen, crashed>>

\* the texts typed into the fields of the day editor
ClockInTexts == {NoText, <<IntTok(9), IntTok(0)>>, <<IntTok(9)>>, <<IntTok(25), IntTok(0)>>}

ClockOutTexts == {NoText, <<IntTok(17), IntTok(30)>>, <<JunkTok, IntTok(0)>>}

LunchTexts == {NoText, <<IntTok(30)>>, <<JunkTok>>}

AdjustmentTexts == {NoText, <<IntTok(0)>>, <<DecTok(750)>>, <<JunkTok>>}

\* U+00A0, the no-break space
NoBreakSpace == <<160>>

AdjustTypeTexts == {EmptyText, NoBreakSpace, Text("l"), Text("q")}

CommentTexts == {Text(" "), NoBreakSpace \o Text("note ")}

\* EditDayScreen.on_input_changed: the user changes the text of one field;
\* the adjust-type field is put in upper case, the other fields keep the
\* text as typed
EditDay_on_input_changed ==
    /\ ModalOpen("EditDayScreen")
    /\ \/ \E t \in ClockInTexts : screen' = [screen EXCEPT !.fields.clock_in = t]
       \/ \E t \in LunchTexts : screen' = [screen EXCEPT !.fields.lunch = t]
       \/ \E t \in ClockOutTexts : screen' = [screen EXCEPT !.fields.clock_out = t]
       \/ \E t \in AdjustmentTexts : screen' = [screen EXCEPT !.fields.adjustment = t]
       \/ \E t \in AdjustTypeTexts : screen' = [screen EXCEPT !.fields.adjust_type = upper(t)]
    /\ screen' # screen
    /\ notice' = None
    /\ ui_event' = UiEvent("on_input_changed")
    /\ UNCHANGED <<pureVars, storeVars, app, crashed>>

\* the user changes the text of the comment field, which on_input_changed
\* leaves as typed
EditDay_comment_changed ==
    /\ ModalOpen("EditDayScreen")
    /\ \E t \in CommentTexts : screen' = [screen EXCEPT !.fields.comment = t]
    /\ screen' # screen
    /\ notice' = None
    /\ ui_event' = UiEvent("on_input_changed")
    /\ UNCHANGED <<pureVars, storeVars, app, crashed>>

\* the comment is typed while nothing is stored
comment_changed_bounded ==
    /\ time_entries = EmptyTable
    /\ EditDay_comment_changed

\* _on_edit_complete(result): the week view's completion handler
_on_edit_complete(a, result, allocations) ==
    LET saved == IF IsSome(result)
                 THEN _refresh_display(
                          [a EXCEPT !.entries = Upsert(a.entries, Val(result).date, Val(result))],
                          allocations)
                 ELSE a
    IN  IF IsSome(saved.edit_row)
        THEN [saved EXCEPT !.cursor_row = IF Val(saved.edit_row) + 1 < 6
                                          THEN Val(saved.edit_row) + 1 ELSE 6,
                           !.edit_row = None]
        ELSE saved

\* _on_day_edit_complete(result): the day view's completion handler
_on_day_edit_complete(a, result, allocations) ==
    IF IsSome(result)
    THEN LET d == Val(result).date
             cached == IF YearOf(d) = a.current_year /\ MonthOf(d) = a.current_month
                       THEN [a EXCEPT !.entries = Upsert(a.entries, d, Val(result))]
                       ELSE a
         IN  _refresh_display(cached, allocations)
    ELSE a

\* the callback push_screen registered, run on what dismiss passes
EditDayCallback(callback, a, result, allocations) ==
    IF callback = "_on_edit_complete"
    THEN _on_edit_complete(a, result, allocations)
    ELSE _on_day_edit_complete(a, result, allocations)

\* Save in the day editor: _save_entry, and on dismiss the completion handler
EditDay_save ==
    /\ ModalOpen("EditDayScreen")
    /\ LET outcome == EditDay_save_entry(screen.entry, screen.fields)
       IN  CASE outcome.kind = "raise" ->
                  /\ crashed' = TRUE
                  /\ notice' = None
                  /\ UNCHANGED <<app, screen, time_entries>>
             [] outcome.kind = "notify" ->
                  /\ notice' = outcome.notice
                  /\ UNCHANGED <<app, screen, time_entries, crashed>>
             [] outcome.kind = "dismiss" ->
                  /\ screen' = None
                  /\ time_entries' = save_entry(time_entries, Val(outcome.result))
                  /\ app' = EditDayCallback(screen.callback, app, outcome.result,
                                            ticket_allocations)
                  /\ notice' = None
                  /\ UNCHANGED crashed
    /\ ui_event' = UiEvent("_save_entry")
    /\ UNCHANGED <<pureVars, config, tickets, ticket_allocations, st_call>>

\* Cancel in the day editor: dismiss(None), then the completion handler
EditDay_cancel ==
    /\ ModalOpen("EditDayScreen")
    /\ screen' = None
    /\ app' = EditDayCallback(screen.callback, app, None, ticket_allocations)
    /\ notice' = None
    /\ ui_event' = UiEvent("action_cancel")
    /\ UNCHANGED <<pureVars, storeVars, crashed>>

\* TicketSelectScreen() as push_screen puts it on the stack; search is the
\* text of its search input
TicketSelectScreen ==
    [kind |-> "TicketSelectScreen", callback |-> "_on_ticket_selected_for_allocation",
     search |-> EmptyText]

\* the texts typed into the search input of the ticket selector and of the
\* ticket management screen
SearchTexts == {EmptyText, Text("zz"), Text("_J")}

\* TicketSelectScreen.on_input_changed: the table is filled again with the
\* tickets the text finds
TicketSelect_on_input_changed ==
    /\ ModalOpen("TicketSelectScreen")
    /\ \E t \in SearchTexts : screen' = [screen EXCEPT !.search = t]
    /\ screen' # screen
    /\ notice' = None
    /\ ui_event' = UiEvent("on_input_changed")
    /\ UNCHANGED <<pureVars, storeVars, app, crashed>>

\* action_add_allocation: in the day view, open the ticket selector
action_add_allocation ==
    /\ AppAcceptsKeys
    /\ app.view_mode = "day"
    /\ IsSome(app.day_view_date)
    /\ app' = [app EXCEPT !.allocation_target_date = app.day_view_date]
    /\ screen' = TicketSelectScreen
    /\ notice' = None
    /\ ui_event' = UiEvent("action_add_allocation")
    /\ UNCHANGED <<pureVars, storeVars, crashed>>

\* the ticket selector dismisses with the ticket of a row of its table, and
\* _on_ticket_selected_for_allocation opens the allocation editor unless the
\* ticket already has an allocation on the target date
TicketSelect_row_selected ==
    /\ ModalOpen("TicketSelectScreen")
    /\ \E id \in TicketsListed(tickets, screen.search, FALSE) :
          LET target_date == app.allocation_target_date
              target_allocations ==
                  get_allocations_for_date(ticket_allocations, Val(target_date))
              existing == \E k \in 1..Len(target_allocations) :
                             target_allocations[k].ticket_id = id
          IN  IF ~IsSome(get_ticket(tickets, id)) \/ ~IsSome(target_date)
              THEN screen' = None /\ notice' = None
              ELSE IF existing
              THEN /\ screen' = None
                   /\ notice' = TicketNotice(
                                    "{ticket.id} already has an allocation. Edit it instead.",
                                    id, "warning")
              ELSE /\ screen' = EditAllocationScreen(id, NoText)
                   /\ notice' = None
    /\ ui_event' = UiEvent("_on_ticket_selected_for_allocation")
    /\ UNCHANGED <<pureVars, storeVars, app, crashed>>

\* Cancel in the ticket selector: dismiss(None), the handler does nothing
TicketSelect_cancel ==
    /\ ModalOpen("TicketSelectScreen")
    /\ screen' = None
    /\ notice' = None
    /\ ui_event' = UiEvent("action_cancel")
    /\ UNCHANGED <<pureVars, storeVars, app, crashed>>

\* the texts typed into the two fields of the ticket editor; the id field
\* takes at most 8 characters
TicketIdTexts == {EmptyText, Text(" t2 ")}

TicketDescriptionTexts == {EmptyText, Text(" Renamed ")}

\* EditTicketScreen(ticket) as push_screen(screen, callback) puts it on top
\* of the modal screen that opened it; ticket is None when a new ticket is
\* created, and compose fills the two fields from the ticket
EditTicketScreen(ticket, callback, under) ==
    [kind |-> "EditTicketScreen", ticket |-> ticket, callback |-> callback,
     under |-> under,
     fields |-> [ticket_id |-> IF IsSome(ticket) THEN Val(ticket).id ELSE EmptyText,
                 description |-> IF IsSome(ticket) THEN Val(ticket).description
                                 ELSE EmptyText]]

\* EditTicketScreen._save_ticket on the texts of its two fields; ticket is
\* None when a new ticket is created
EditTicket_save_ticket(ticket, ticket_id_text, description_text, table, today) ==
    LET ticket_id == upper(strip(ticket_id_text))
        description == strip(description_text)
    IN  IF ticket_id = EmptyText THEN Notifies("Ticket ID is required", "error")
        ELSE IF description = EmptyText THEN Notifies("Description is required", "error")
        ELSE IF Len(ticket_id) > 8
        THEN Notifies("Ticket ID must be 8 characters or less", "error")
        ELSE IF ~IsSome(ticket) /\ IsSome(get_ticket(table, ticket_id))
        THEN [kind |-> "notify",
              notice |-> TicketNotice("Ticket {ticket_id} already exists", ticket_id,
                                      "error")]
        ELSE Dismisses(Some(Ticket(ticket_id, description,
                                   IF IsSome(ticket) THEN Val(ticket).archived
                                   ELSE FALSE,
                                   IF IsSome(ticket) THEN Val(ticket).created_at
                                   ELSE Some(today))))

\* action_new_ticket of the management screen: the ticket editor opens
\* empty on top of the management screen
TicketManagement_new_ticket ==
    /\ ModalOpen("TicketManagementScreen")
    /\ screen' = EditTicketScreen(None, "_on_ticket_edited", screen)
    /\ notice' = None
    /\ ui_event' = UiEvent("action_new_ticket")
    /\ UNCHANGED <<pureVars, storeVars, app, crashed>>

\* _select_current_ticket of the ticket selector when its table has no
\* row: a warning, and the selector stays open
TicketSelect_select_no_ticket ==
    /\ ModalOpen("TicketSelectScreen")
    /\ TicketsListed(tickets, screen.search, FALSE) = {}
    /\ notice' = Notice("No ticket selected", "warning")
    /\ ui_event' = UiEvent("_select_current_ticket")
    /\ UNCHANGED <<pureVars, storeVars, app, screen, crashed>>

\* action_new_ticket of the ticket selector: the ticket editor opens empty
\* on top of the selector
TicketSelect_new_ticket ==
    /\ ModalOpen("TicketSelectScreen")
    /\ screen' = EditTicketScreen(None, "_on_ticket_created", screen)
    /\ notice' = None
    /\ ui_event' = UiEvent("action_new_ticket")
    /\ UNCHANGED <<pureVars, storeVars, app, crashed>>

\* action_edit_ticket: the editor opens on the ticket of the cursor's row,
\* on top of the management screen; a warning when the table has no row
TicketManagement_edit_ticket ==
    /\ ModalOpen("TicketManagementScreen")
    /\ IF TicketsListed(tickets, screen.search, screen.show_archived) = {}
       THEN /\ notice' = Notice("No ticket selected", "warning")
            /\ UNCHANGED screen
       ELSE /\ \E ticket_id \in TicketsListed(tickets, screen.search, screen.show_archived) :
                  screen' = EditTicketScreen(get_ticket(tickets, ticket_id),
                                             "_on_ticket_edited", screen)
            /\ notice' = None
    /\ ui_event' = UiEvent("action_edit_ticket")
    /\ UNCHANGED <<pureVars, storeVars, app, crashed>>

\* the user types into a field of the ticket editor; the id field is
\* disabled when the editor is open on a ticket
EditTicket_type_text ==
    /\ ModalOpen("EditTicketScreen")
    /\ \/ /\ ~IsSome(screen.ticket)
          /\ \E t \in TicketIdTexts : screen' = [screen EXCEPT !.fields.ticket_id = t]
       \/ \E t \in TicketDescriptionTexts :
             screen' = [screen EXCEPT !.fields.description = t]
    /\ screen' # screen
    /\ notice' = None
    /\ ui_event' = UiEvent("type_text")
    /\ UNCHANGED <<pureVars, storeVars, app, crashed>>

\* Save in the ticket editor: _save_ticket refuses with a notice and the
\* editor stays open, or dismisses with the ticket. _on_ticket_edited then
\* stores the ticket and the management screen is on top again;
\* _on_ticket_created stores it and dismisses the selector with it, and
\* _on_ticket_selected_for_allocation opens the allocation editor unless the
\* ticket already has an allocation on the target date
EditTicket_save ==
    /\ ModalOpen("EditTicketScreen")
    /\ LET outcome == EditTicket_save_ticket(screen.ticket, screen.fields.ticket_id,
                                             screen.fields.description, tickets, Today)
       IN  IF outcome.kind # "dismiss"
           THEN /\ notice' = outcome.notice
                /\ UNCHANGED <<tickets, screen>>
           ELSE LET result == Val(outcome.result)
                    target_date == app.allocation_target_date
                    target_allocations ==
                        get_allocations_for_date(ticket_allocations, Val(target_date))
                    existing == \E k \in 1..Len(target_allocations) :
                                   target_allocations[k].ticket_id = result.id
                IN  /\ tickets' = save_ticket(tickets, result, Today)
                    /\ IF screen.callback = "_on_ticket_edited"
                       THEN /\ screen' = screen.under
                            /\ notice' = TicketNotice("Ticket {result.id} saved",
                                                      result.id, "information")
                       ELSE IF ~IsSome(target_date)
                       THEN /\ screen' = None
                            /\ notice' = TicketNotice("Ticket {result.id} created",
                                                      result.id, "information")
                       ELSE IF existing
                       THEN /\ screen' = None
                            /\ notice' = TicketNotice(
                                   "{ticket.id} already has an allocation. Edit it instead.",
                                   result.id, "warning")
                       ELSE /\ screen' = EditAllocationScreen(result.id, NoText)
                            /\ notice' = TicketNotice("Ticket {result.id} created",
                                                      result.id, "information")
    /\ ui_event' = UiEvent("_save_ticket")
    /\ UNCHANGED <<pureVars, config, time_entries, ticket_allocations, st_call,
                   app, crashed>>

\* Cancel or Escape in the ticket editor: dismiss(None), the callback does
\* nothing and the screen that opened the editor is on top again
EditTicket_cancel ==
    /\ ModalOpen("EditTicketScreen")
    /\ screen' = screen.under
    /\ notice' = None
    /\ ui_event' = UiEvent("action_cancel")
    /\ UNCHANGED <<pureVars, storeVars, app, crashed>>

\* the texts typed into the hours field of the allocation editor
HoursTexts == {NoText, <<IntTok(0)>>, <<IntTok(1)>>, <<DecTok(750)>>, <<IntTok(-1)>>,
               <<JunkTok>>, <<NanTok>>}

\* the user changes the text of the hours field
EditAllocation_on_input_changed ==
    /\ ModalOpen("EditAllocationScreen")
    /\ \E t \in HoursTexts : screen' = [screen EXCEPT !.fields.hours = t]
    /\ screen' # screen
    /\ notice' = None
    /\ ui_event' = UiEvent("on_input_changed")
    /\ UNCHANGED <<pureVars, storeVars, app, crashed>>

\* a variant of _on_allocation_edited that stores hours of zero as well
_on_allocation_edited_stores_zero(allocations, target_date, ticket_id, hours) ==
    [table |-> save_allocation(allocations,
                   TicketAllocation(ticket_id, target_date, hours, FALSE)),
     notice |-> Notice("Allocated", "information")]

\* _on_allocation_edited on the result (ticket_id, hours) and the captured
\* target date: hours above zero are stored for (ticket_id, target_date),
\* any other number deletes the allocation of that pair
_on_allocation_edited(allocations, target_date, ticket_id, hours) ==
    IF hours.hundredths > 0
    THEN [table |-> save_allocation(allocations,
                        TicketAllocation(ticket_id, target_date, hours, FALSE)),
          notice |-> Notice("Allocated", "information")]
    ELSE [table |-> delete_allocation(allocations, ticket_id, target_date),
          notice |-> Notice("Removed allocation", "information")]

\* Save in the allocation editor: _save, and on dismiss
\* _on_allocation_edited followed by _refresh_display; Decimal("nan") > 0
\* raises in the callback before anything is stored
EditAllocation_save_pressed ==
    /\ ModalOpen("EditAllocationScreen")
    /\ LET outcome == EditAllocation_save(screen.ticket_id, screen.fields)
           target_date == app.allocation_target_date
       IN  CASE outcome.kind = "notify" ->
                  /\ notice' = outcome.notice
                  /\ UNCHANGED <<app, screen, ticket_allocations, crashed>>
             [] outcome.kind = "dismiss" /\ ~IsSome(target_date) ->
                  /\ screen' = None
                  /\ notice' = None
                  /\ UNCHANGED <<app, ticket_allocations, crashed>>
             [] outcome.kind = "dismiss" /\ IsSome(target_date) ->
                  LET ticket_id == Val(outcome.result)[1]
                      hours_str == Val(outcome.result)[2]
                  IN  IF is_nan(hours_str[1])
                      THEN /\ crashed' = TRUE
                           /\ screen' = None
                           /\ notice' = None
                           /\ UNCHANGED <<app, ticket_allocations>>
                      ELSE LET edited == _on_allocation_edited(ticket_allocations,
                                             Val(target_date), ticket_id,
                                             Decimal(hours_str[1]))
                           IN  /\ ticket_allocations' = edited.table
                               /\ notice' = edited.notice
                               /\ app' = _refresh_display(app, edited.table)
                               /\ screen' = None
                               /\ UNCHANGED crashed
    /\ ui_event' = UiEvent("_save")
    /\ UNCHANGED <<pureVars, config, time_entries, tickets, st_call>>

\* Cancel in the allocation editor: dismiss(None), the handler does nothing
EditAllocation_cancel ==
    /\ ModalOpen("EditAllocationScreen")
    /\ screen' = None
    /\ notice' = None
    /\ ui_event' = UiEvent("action_cancel")
    /\ UNCHANGED <<pureVars, storeVars, app, crashed>>

\* the application started today on a store that holds one ticket
InitEdit ==
    /\ cal_call = NoCall
    /\ hrs_entry = None
    /\ hrs_call = NoCall
    /\ config = EmptyTable
    /\ time_entries = EmptyTable
    /\ st_call = NoCall
    /\ tickets = save_ticket(EmptyTable, Ticket(T1, Support, FALSE, None), Today)
    /\ ticket_allocations = EmptyTable
    /\ app = AppStarted(time_entries, ticket_allocations, Today)
    /\ screen = None
    /\ notice = None
    /\ crashed = FALSE
    /\ ui_event = NoCall

NextEdit ==
    \/ action_edit_day
    \/ on_data_table_row_selected
    \/ action_back_to_week
    \/ EditDay_on_input_changed
    \/ comment_changed_bounded
    \/ EditDay_save
    \/ EditDay_cancel
    \/ action_add_allocation
    \/ TicketSelect_row_selected
    \/ TicketSelect_cancel
    \/ EditAllocation_on_input_changed
    \/ EditAllocation_save_pressed
    \/ EditAllocation_cancel

SpecEdit == InitEdit /\ [][NextEdit]_vars

----------------------------------------------------------------------------
(* Rejections of the editors *)

\* the step is a Save of the day editor
IsDaySave == ModalOpen("EditDayScreen") /\ ui_event' = UiEvent("_save_entry")

\* the step is a Save of the allocation editor
IsAllocationSave == ModalOpen("EditAllocationScreen") /\ ui_event' = UiEvent("_save")

\* the text is a number other than zero
NonZeroNumber(text) ==
    /\ text # NoText
    /\ text[1].kind \in {"int", "dec"}
    /\ text[1].n # 0

\* the text is not empty and is no number
NonNumeric(text) == text # NoText /\ text[1].kind = "junk"

\* the text is not empty and is no time of day HH:MM
MalformedTime(text) ==
    /\ text # NoText
    /\ ~( /\ Len(text) = 2
          /\ text[1].kind = "int" /\ text[1].n \in 0..23
          /\ text[2].kind = "int" /\ text[2].n \in 0..59 )

\* the step leaves the editor open, tells the user of an error, and changes
\* neither the stored time entries nor the cache
DaySaveRejected ==
    /\ screen' = screen
    /\ ~crashed'
    /\ notice' # None
    /\ notice'.severity = "error"
    /\ time_entries' = time_entries
    /\ app'.entries = app.entries

(* C6: in the day editor, a save attempt with a non-zero adjustment and no *)
(* adjustment type, or with an adjustment-type letter outside {L, S, T, P}, *)
(* is rejected: the editor is not dismissed with an entry, the user is      *)
(* notified, and neither the stored time entry nor the in-memory cache      *)
(* changes.                                                                 *)
C6_InvalidAdjustmentRejected ==
    [][ ( /\ IsDaySave
          /\ \/ /\ NonZeroNumber(screen.fields.adjustment)
                /\ strip(screen.fields.adjust_type) = EmptyText
             \/ /\ strip(screen.fields.adjust_type) # EmptyText
                /\ upper(strip(screen.fields.adjust_type))
                      \notin {AdjustTypeText[l] : l \in AdjustTypeLetters} )
        => DaySaveRejected ]_vars

(* C7: a parse failure is rejected with a message to the user and leaves    *)
(* the record as it was: a malformed clock-in or clock-out text, a          *)
(* non-numeric lunch or adjustment text in the day editor, and a            *)
(* non-numeric hours text in the allocation editor each prevent the save,   *)
(* so the stored entry or allocation is the same before and after.          *)
C7_ParseFailuresRejected ==
    [][ /\ ( /\ IsDaySave
             /\ \/ MalformedTime(screen.fields.clock_in)
                \/ MalformedTime(screen.fields.clock_out)
                \/ NonNumeric(screen.fields.lunch)
                \/ NonNumeric(screen.fields.adjustment) )
           => DaySaveRejected
        /\ ( IsAllocationSave /\ NonNumeric(screen.fields.hours) )
           => /\ screen' = screen
              /\ ~crashed'
              /\ notice' # None
              /\ notice'.severity = "error"
              /\ ticket_allocations' = ticket_allocations ]_vars

----------------------------------------------------------------------------
(* storage.py: deleting tickets *)

can_delete_ticket_always(allocations, ticket_id) == TRUE

\* can_delete_ticket: no row of ticket_allocations names the ticket
can_delete_ticket(allocations, ticket_id) ==
    Cardinality({r \in allocations : r.ticket_id = ticket_id}) = 0

\* delete_ticket: the tickets table after the call and the value returned
delete_ticket(table, allocations, ticket_id) ==
    IF ~can_delete_ticket(allocations, ticket_id)
    THEN [table |-> table, ret |-> FALSE]
    ELSE [table |-> {r \in table : r.id # ticket_id}, ret |-> TRUE]

----------------------------------------------------------------------------
(* Calls of the ticket and allocation API on a store created by init_db *)

\* the ticket ids the API is called with
StoreTicketIds == {T1, T2}

\* the dates the API is called with
StoreDates == {Today - 1, Today}

\* the hours and entered-on-client flags of saved allocations
StoreAllocationValues ==
    {<<Decimal(DecTok(750)), FALSE>>, <<Decimal(DecTok(750)), TRUE>>,
     <<Decimal(IntTok(1)), FALSE>>}

CallSaveTicket ==
    /\ \E id \in StoreTicketIds :
          /\ tickets' = save_ticket(tickets, Ticket(id, Support, FALSE, None), Today)
          /\ st_call' = [fn |-> "save_ticket", ticket_id |-> id]
    /\ UNCHANGED <<pureVars, config, time_entries, ticket_allocations, appVars>>

CallDeleteTicket ==
    /\ \E id \in StoreTicketIds :
          LET r == delete_ticket(tickets, ticket_allocations, id)
          IN  /\ tickets' = r.table
              /\ st_call' = [fn |-> "delete_ticket", ticket_id |-> id, ret |-> r.ret]
    /\ UNCHANGED <<pureVars, config, time_entries, ticket_allocations, appVars>>

CallSaveAllocation ==
    /\ \E id \in StoreTicketIds, d \in StoreDates, v \in StoreAllocationValues :
          /\ ticket_allocations' =
                 save_allocation(ticket_allocations, TicketAllocation(id, d, v[1], v[2]))
          /\ st_call' = [fn |-> "save_allocation", ticket_id |-> id, date |-> d,
                         hours |-> v[1], entered_on_client |-> v[2],
                         existed |-> AllocationRows(ticket_allocations, id,
                                                    isoformat(d)) # {}]
    /\ UNCHANGED <<pureVars, config, time_entries, tickets, appVars>>

CallDeleteAllocation ==
    /\ \E id \in StoreTicketIds, d \in StoreDates :
          /\ ticket_allocations' = delete_allocation(ticket_allocations, id, d)
          /\ st_call' = [fn |-> "delete_allocation", ticket_id |-> id, date |-> d]
    /\ UNCHANGED <<pureVars, config, time_entries, tickets, appVars>>

InitTickets ==
    /\ cal_call = NoCall
    /\ hrs_entry = None
    /\ hrs_call = NoCall
    /\ config = EmptyTable
    /\ time_entries = EmptyTable
    /\ st_call = NoCall
    /\ tickets = EmptyTable
    /\ ticket_allocations = EmptyTable
    /\ AppNotRunning

NextTickets ==
    \/ CallSaveTicket
    \/ CallDeleteTicket
    \/ CallSaveAllocation
    \/ CallDeleteAllocation

SpecTickets == InitTickets /\ [][NextTickets]_vars

\* the allocations that name a ticket
AllocationsOfTicket(allocations, ticket_id) ==
    {r \in allocations : r.ticket_id = ticket_id}

(* C11: a ticket referenced by at least one allocation cannot be deleted:   *)
(* delete_ticket returns False and leaves the tickets and allocations       *)
(* tables unchanged; once no allocation names the ticket, delete_ticket     *)
(* returns True, the ticket is gone and every other ticket is kept.         *)
C11_DeleteTicketRefusedWhileAllocated ==
    [][ st_call'.fn = "delete_ticket" =>
          LET id == st_call'.ticket_id
          IN  /\ ticket_allocations' = ticket_allocations
              /\ IF AllocationsOfTicket(ticket_allocations, id) # {}
                 THEN st_call'.ret = FALSE /\ tickets' = tickets
                 ELSE /\ st_call'.ret = TRUE
                      /\ \A r \in tickets' : r.id # id
                      /\ tickets' = {r \in tickets : r.id # id} ]_vars

\* delete_ticket has just refused to delete a stored ticket that an
\* allocation names
C11_Witness ==
    /\ st_call.fn = "delete_ticket"
    /\ st_call.ret = FALSE
    /\ \E t \in tickets : t.id = st_call.ticket_id
    /\ AllocationsOfTicket(ticket_allocations, st_call.ticket_id) # {}

----------------------------------------------------------------------------
(* Allocation status of a day: storage.get_total_allocated_hours and the    *)
(* status methods of app.py                                                 *)

RECURSIVE SumHours(_)
SumHours(rows) ==
    IF rows = {} THEN 0
    ELSE LET r == CHOOSE x \in rows : TRUE
         IN  float_value(r.hours) + SumHours(rows \ {r})

\* get_total_allocated_hours: the sum of the hours allocated on d (0 without
\* rows), quantized to hundredths, which the stored hundredths already are
get_total_allocated_hours(allocations, d) ==
    SumHours({r \in allocations : r.date = isoformat(d)})

\* a rich Text of one style: the symbols are written "-", "?", "under" (the
\* down arrow), "over" (the up arrow) and "exact" (the tick)
StyledText(symbol, style) == [symbol |-> symbol, style |-> style]

_get_allocation_status_unallocated_first(allocations, d, worked) ==
    LET total_allocated == get_total_allocated_hours(allocations, d)
    IN  IF total_allocated = 0 THEN StyledText("?", "dim")
        ELSE IF worked = 0 THEN StyledText("-", "dim")
        ELSE IF total_allocated < worked THEN StyledText("under", "yellow")
        ELSE IF total_allocated > worked THEN StyledText("over", "red")
        ELSE StyledText("exact", "green")

_get_allocation_status(allocations, d, worked) ==
    IF worked = 0 THEN StyledText("-", "dim")
    ELSE LET total_allocated == get_total_allocated_hours(allocations, d)
         IN  IF total_allocated = 0 THEN StyledText("?", "dim")
             ELSE IF total_allocated < worked THEN StyledText("under", "yellow")
             ELSE IF total_allocated > worked THEN StyledText("over", "red")
             ELSE StyledText("exact", "green")

\* the cell: the symbol in its style, and the separator after a Friday
_get_allocation_status_with_sep(allocations, d, worked, is_friday) ==
    LET chosen ==
            IF worked = 0 THEN <<"-", "dim">>
            ELSE LET total_allocated == get_total_allocated_hours(allocations, d)
                 IN  IF total_allocated = 0 THEN <<"?", "dim">>
                     ELSE IF total_allocated < worked THEN <<"under", "yellow">>
                     ELSE IF total_allocated > worked THEN <<"over", "red">>
                     ELSE <<"exact", "green">>
    IN  [symbol |-> chosen[1], style |-> chosen[2], sep |-> is_friday]

_has_allocation_mismatch_ignores_unallocated(allocations, d, entries_dict) ==
    IF d \notin DOMAIN entries_dict THEN FALSE
    ELSE IF worked_hours(entries_dict[d]) = 0 THEN FALSE
    ELSE /\ get_total_allocated_hours(allocations, d) # 0
         /\ get_total_allocated_hours(allocations, d) # worked_hours(entries_dict[d])

_has_allocation_mismatch(allocations, d, entries_dict) ==
    IF d \notin DOMAIN entries_dict THEN FALSE
    ELSE IF worked_hours(entries_dict[d]) = 0 THEN FALSE
    ELSE get_total_allocated_hours(allocations, d) # worked_hours(entries_dict[d])

----------------------------------------------------------------------------
(* Calls of the status methods on stores that hold allocations *)

\* the date whose status is asked for
StatusDate == Today

\* the entries of that date: without clock times, 7.5 h, 8 h, clocked out
\* before clocked in, and leave without clock times
StatusEntries ==
    {TimeEntry(StatusDate, DayName(StatusDate), None, None, None, None, None, None),
     TimeEntry(StatusDate, DayName(StatusDate), Some(Time(9, 0)), Some(Minutes(30)),
               Some(Time(17, 0)), None, None, None),
     TimeEntry(StatusDate, DayName(StatusDate), Some(Time(9, 0)), None,
               Some(Time(17, 0)), None, None, None),
     TimeEntry(StatusDate, DayName(StatusDate), Some(Time(17, 0)), None,
               Some(Time(9, 0)), None, None, None),
     TimeEntry(StatusDate, DayName(StatusDate), None, None, None,
               Some(Hours(7) + Minutes(30)), Some("L"), None)}

\* the worked hours the status methods are called with
StatusWorked == {worked_hours(e) : e \in StatusEntries}

SaveAllocationIfAny(table, a) == IF IsSome(a) THEN save_allocation(table, Val(a)) ELSE table

\* stores written by save_allocation: up to two tickets on the date and one
\* allocation on the day before
StatusStores ==
    {SaveAllocationIfAny(SaveAllocationIfAny(SaveAllocationIfAny(EmptyTable, a), b), c) :
        a \in {None} \cup {Some(TicketAllocation(T1, StatusDate, Decimal(h), FALSE)) :
                               h \in {IntTok(1), DecTok(750)}},
        b \in {None} \cup {Some(TicketAllocation(T2, StatusDate, Decimal(h), TRUE)) :
                               h \in {DecTok(50), DecTok(750)}},
        c \in {None, Some(TicketAllocation(T1, StatusDate - 1, Decimal(DecTok(750)), FALSE))}}

CallGetAllocationStatus ==
    /\ \E w \in StatusWorked :
          ui_event' = [fn |-> "_get_allocation_status", d |-> StatusDate,
                       worked_hours |-> w,
                       ret |-> _get_allocation_status(ticket_allocations, StatusDate, w)]
    /\ UNCHANGED <<pureVars, storeVars, app, screen, notice, crashed>>

CallGetAllocationStatusWithSep ==
    /\ \E w \in StatusWorked, is_friday \in BOOLEAN :
          ui_event' = [fn |-> "_get_allocation_status_with_sep", d |-> StatusDate,
                       worked_hours |-> w, is_friday |-> is_friday,
                       ret |-> _get_allocation_status_with_sep(ticket_allocations,
                                                               StatusDate, w, is_friday)]
    /\ UNCHANGED <<pureVars, storeVars, app, screen, notice, crashed>>

CallHasAllocationMismatch ==
    /\ \E entries_dict \in {<<>>, Upsert(<<>>, StatusDate, hrs_entry)} :
          ui_event' = [fn |-> "_has_allocation_mismatch", d |-> StatusDate,
                       entries_dict |-> entries_dict,
                       ret |-> _has_allocation_mismatch(ticket_allocations, StatusDate,
                                                        entries_dict)]
    /\ UNCHANGED <<pureVars, storeVars, app, screen, notice, crashed>>

InitStatus ==
    /\ cal_call = NoCall
    /\ hrs_entry \in StatusEntries
    /\ hrs_call = NoCall
    /\ config = EmptyTable
    /\ time_entries = EmptyTable
    /\ st_call = NoCall
    /\ tickets = EmptyTable
    /\ ticket_allocations \in StatusStores
    /\ AppNotRunning

NextStatus ==
    \/ CallGetAllocationStatus
    \/ CallGetAllocationStatusWithSep
    \/ CallHasAllocationMismatch

SpecStatus == InitStatus /\ [][NextStatus]_vars

\* the status the four-way comparison gives to (worked hours, allocated hours)
StatusOf(worked, allocated) ==
    IF worked = 0 THEN "-"
    ELSE IF allocated = 0 THEN "?"
    ELSE IF allocated < worked THEN "under"
    ELSE IF allocated > worked THEN "over"
    ELSE "exact"

\* the hours allocated on the status date, summed over the store's rows
AllocatedOnStatusDate ==
    SumHours({r \in ticket_allocations : fromisoformat(r.date) = StatusDate})

(* C12: the allocation status of a date is a function of only (worked       *)
(* hours, total allocated hours of the date): worked = 0 gives "-" whatever *)
(* is allocated; otherwise allocated = 0 gives "?", allocated < worked      *)
(* under, allocated > worked over, allocated = worked exact; and            *)
(* _get_allocation_status and _get_allocation_status_with_sep choose the    *)
(* same symbol for the same inputs.                                         *)
C12_StatusIsFourWayComparison ==
    /\ ui_event.fn = "_get_allocation_status" =>
          /\ ui_event.ret.symbol = StatusOf(ui_event.worked_hours, AllocatedOnStatusDate)
          /\ \A is_friday \in BOOLEAN :
                LET cell == _get_allocation_status_with_sep(
                                ticket_allocations, ui_event.d, ui_event.worked_hours, is_friday)
                IN  cell.symbol = ui_event.ret.symbol /\ cell.style = ui_event.ret.style
    /\ ui_event.fn = "_get_allocation_status_with_sep" =>
          /\ ui_event.ret.symbol = StatusOf(ui_event.worked_hours, AllocatedOnStatusDate)
          /\ ui_event.ret.symbol =
                 _get_allocation_status(ticket_allocations, ui_event.d,
                                        ui_event.worked_hours).symbol

\* 8 worked hours met exactly by the allocations of two tickets
C12_Witness ==
    /\ ui_event.fn = "_get_allocation_status"
    /\ ui_event.worked_hours = 800
    /\ ui_event.ret.symbol = "exact"
    /\ Cardinality({r \in ticket_allocations : fromisoformat(r.date) = StatusDate}) = 2

(* C20: _has_allocation_mismatch(d, entries) is False when there is no      *)
(* entry for d or its worked hours are 0, and otherwise True exactly when   *)
(* the total allocated hours of d differ from the entry's worked hours; so  *)
(* it is True exactly for the days whose status is "?", under or over.      *)
C20_MismatchIffStatusNotExact ==
    ui_event.fn = "_has_allocation_mismatch" =>
        LET has == ui_event.d \in DOMAIN ui_event.entries_dict
            worked == IF has THEN worked_hours(ui_event.entries_dict[ui_event.d]) ELSE 0
        IN  /\ (~has \/ worked = 0) => ui_event.ret = FALSE
            /\ (has /\ worked # 0) => ui_event.ret = (AllocatedOnStatusDate # worked)
            /\ ui_event.ret = (StatusOf(worked, AllocatedOnStatusDate) \in {"?", "under", "over"})
            /\ ui_event.ret =
                   (_get_allocation_status(ticket_allocations, ui_event.d, worked).symbol
                        \in {"?", "under", "over"})

\* a day with 7.5 worked hours and nothing allocated is a mismatch
C20_Witness ==
    /\ ui_event.fn = "_has_allocation_mismatch"
    /\ ui_event.ret = TRUE
    /\ ui_event.d \in DOMAIN ui_event.entries_dict
    /\ worked_hours(ui_event.entries_dict[ui_event.d]) = 750
    /\ AllocatedOnStatusDate = 0

\* the table holds at most one allocation per (ticket id, date)
OneAllocationPerPair(table) ==
    \A r1 \in table, r2 \in table :
        (r1.ticket_id = r2.ticket_id /\ r1.date = r2.date) => r1 = r2

\* the rows of every pair but (ticket_id, date) are the same in both tables
OtherPairsSame(before, after, ticket_id, iso) ==
    after \ AllocationRows(after, ticket_id, iso)
        = before \ AllocationRows(before, ticket_id, iso)

(* C13: after any sequence of save_allocation and delete_allocation calls   *)
(* the store holds at most one allocation per (ticket id, date);            *)
(* save_allocation on an existing pair replaces its hours and               *)
(* entered-on-client flag, on a new pair adds one row, and in both cases    *)
(* leaves every other pair unchanged; delete_allocation removes exactly     *)
(* that pair.                                                               *)
C13_OneAllocationPerTicketAndDate ==
    [][ /\ OneAllocationPerPair(ticket_allocations')
        /\ st_call'.fn = "save_allocation" =>
              LET iso == isoformat(st_call'.date)
                  rows == AllocationRows(ticket_allocations', st_call'.ticket_id, iso)
              IN  /\ Cardinality(rows) = 1
                  /\ \A r \in rows :
                        /\ Decimal(r.hours) = st_call'.hours
                        /\ (r.entered_on_client # 0) = st_call'.entered_on_client
                  /\ OtherPairsSame(ticket_allocations, ticket_allocations',
                                    st_call'.ticket_id, iso)
                  /\ Cardinality(ticket_allocations') =
                         Cardinality(ticket_allocations)
                             + (IF st_call'.existed THEN 0 ELSE 1)
        /\ st_call'.fn = "delete_allocation" =>
              LET iso == isoformat(st_call'.date)
              IN  /\ AllocationRows(ticket_allocations', st_call'.ticket_id, iso) = {}
                  /\ OtherPairsSame(ticket_allocations, ticket_allocations',
                                    st_call'.ticket_id, iso) ]_vars

\* save_allocation has just replaced the 7.5 h of an entered allocation by
\* 1 h not entered, in a store that holds allocations of other pairs
C13_Witness ==
    /\ st_call.fn = "save_allocation"
    /\ st_call.existed
    /\ st_call.hours = Decimal(IntTok(1))
    /\ Cardinality(ticket_allocations) = 3
    /\ \E r \in ticket_allocations :
          /\ r.ticket_id # st_call.ticket_id
          /\ r.hours = DecTok(750)
          /\ r.entered_on_client = 1

----------------------------------------------------------------------------
(* Calls of the time-entry API on a store created by init_db *)

\* the dates entries are saved on: the last two days of a month and the
\* first of the next
EntryDates == {Date(2026, 10, 30), Date(2026, 10, 31), Date(2026, 11, 1)}

\* the dates entries are asked for: those, and a date never saved
QueryDates == EntryDates \cup {Date(2026, 11, 2)}

\* an entry whose fields are all present but empty: midnight clock times,
\* zero durations, empty type and comment
ZeroDay(d) ==
    TimeEntry(d, DayName(d), Some(Time(0, 0)), Some(0), Some(Time(0, 0)), Some(0),
              Some(""), Some(EmptyText))

\* leave taken back: a negative adjustment of an hour and a half
NegativeAdjustment(d) ==
    TimeEntry(d, DayName(d), Some(Time(9, 0)), None, Some(Time(17, 0)),
              Some(0 - Minutes(90)), Some("L"), Some(LeftEarly))

\* the entries saved on a date, all minute-granular
EntrySamples(d) == {BlankDay(d), FullDay(d), LeaveDay(d), ZeroDay(d), NegativeAdjustment(d)}

CallSaveEntry ==
    /\ \E d \in EntryDates : \E entry \in EntrySamples(d) :
          /\ time_entries' = save_entry(time_entries, entry)
          /\ st_call' = [fn |-> "save_entry", entry |-> entry]
    /\ UNCHANGED <<pureVars, config, tickets, ticket_allocations, appVars>>

CallGetEntry ==
    /\ \E d \in QueryDates :
          st_call' = [fn |-> "get_entry", d |-> d, ret |-> get_entry(time_entries, d)]
    /\ UNCHANGED <<pureVars, config, time_entries, tickets, ticket_allocations, appVars>>

CallGetEntriesRange ==
    /\ \E start \in QueryDates, end \in QueryDates :
          st_call' = [fn |-> "get_entries_range", start |-> start, end |-> end,
                      ret |-> get_entries_range(time_entries, start, end)]
    /\ UNCHANGED <<pureVars, config, time_entries, tickets, ticket_allocations, appVars>>

CallGetMonthEntries ==
    /\ \E month \in {10, 11, 12} :
          st_call' = [fn |-> "get_month_entries", year |-> 2026, month |-> month,
                      ret |-> get_month_entries(time_entries, 2026, month)]
    /\ UNCHANGED <<pureVars, config, time_entries, tickets, ticket_allocations, appVars>>

InitEntries ==
    /\ cal_call = NoCall
    /\ hrs_entry = None
    /\ hrs_call = NoCall
    /\ config = EmptyTable
    /\ time_entries = EmptyTable
    /\ st_call = NoCall
    /\ tickets = EmptyTable
    /\ ticket_allocations = EmptyTable
    /\ AppNotRunning

NextEntries ==
    \/ CallSaveEntry
    \/ CallGetEntry
    \/ CallGetEntriesRange
    \/ CallGetMonthEntries

SpecEntries == InitEntries /\ [][NextEntries]_vars

\* the entry with a zero lunch duration or adjustment taken as absent
ZeroDurationsAbsent(entry) ==
    [entry EXCEPT !.lunch_duration = IF TruthyDuration(@) THEN @ ELSE None,
                  !.adjustment = IF TruthyDuration(@) THEN @ ELSE None]

(* C15 as stated: save_entry then get_entry on the same date is a round     *)
(* trip: the retrieved entry has the same date, day_of_week, clock_in,      *)
(* lunch_duration, clock_out, adjustment, adjust_type and comment as the    *)
(* saved one, absent fields come back as None, and get_entry of a date      *)
(* never saved returns None.                                                *)
C15_SaveGetRoundTrip ==
    /\ st_call.fn = "save_entry" =>
          get_entry(time_entries, st_call.entry.date) = Some(st_call.entry)
    /\ st_call.fn = "get_entry" =>
          (RowsOfDate(time_entries, isoformat(st_call.d)) = {} => st_call.ret = None)

(* C15 as amended: the same, except that a lunch_duration or adjustment of  *)
(* zero comes back as None.                                                 *)
C15_RoundTripZeroDurationsAbsent ==
    /\ st_call.fn = "save_entry" =>
          get_entry(time_entries, st_call.entry.date)
              = Some(ZeroDurationsAbsent(st_call.entry))
    /\ st_call.fn = "get_entry" =>
          (RowsOfDate(time_entries, isoformat(st_call.d)) = {} => st_call.ret = None)

\* an entry with midnight clock times and zero durations has just been saved
\* next to entries of other dates
C15_Witness ==
    /\ st_call.fn = "save_entry"
    /\ st_call.entry = ZeroDay(st_call.entry.date)
    /\ Cardinality(time_entries) = 3

\* the table holds at most one entry per date
OneEntryPerDate(table) ==
    \A r1 \in table, r2 \in table : r1.date = r2.date => r1 = r2

\* the field is absent in the entry read back when it is absent in the one saved
AbsentStaysAbsent(saved, read) ==
    /\ saved.clock_in = None => read.clock_in = None
    /\ saved.lunch_duration = None => read.lunch_duration = None
    /\ saved.clock_out = None => read.clock_out = None
    /\ saved.adjustment = None => read.adjustment = None
    /\ saved.adjust_type = None => read.adjust_type = None
    /\ saved.comment = None => read.comment = None

StrictlyAscending(found) ==
    \A i \in 1..Len(found), j \in 1..Len(found) : i < j => found[i].date < found[j].date

\* the sequence holds exactly the stored entries of the dates in the set
ExactlyTheStored(found, dates) ==
    /\ {found[i].date : i \in 1..Len(found)}
           = {d \in dates : get_entry(time_entries, d) # None}
    /\ \A i \in 1..Len(found) : Some(found[i]) = get_entry(time_entries, found[i].date)
    /\ StrictlyAscending(found)

(* C17: get_entries_range(start, end) returns exactly the stored entries    *)
(* whose date d satisfies start <= d <= end, each once, in strictly         *)
(* ascending date order (empty when none), whatever order they were saved   *)
(* in; get_month_entries(year, month) returns exactly the stored entries    *)
(* dated in that calendar month.                                            *)
C17_RangeReturnsStoredEntriesInOrder ==
    /\ st_call.fn = "get_entries_range" =>
          ExactlyTheStored(st_call.ret,
                           {d \in QueryDates : st_call.start <= d /\ d <= st_call.end})
    /\ st_call.fn = "get_month_entries" =>
          ExactlyTheStored(st_call.ret,
                           {d \in QueryDates : YearOf(d) = st_call.year
                                               /\ MonthOf(d) = st_call.month})

\* a range over a month boundary that returns two of the three stored entries
C17_Witness ==
    /\ st_call.fn = "get_entries_range"
    /\ st_call.start = Date(2026, 10, 31)
    /\ st_call.end = Date(2026, 11, 1)
    /\ Len(st_call.ret) = 2
    /\ Cardinality(time_entries) = 3

----------------------------------------------------------------------------
(* app.py: the cursor of the week table *)

\* the number of rows of the week table, counted from its last row, within
\* which cursor_up_bounded moves the cursor
RowsVisited == 2

\* the row at which cursor_up_bounded stops
TopRow == 7 - RowsVisited

\* action_cursor_up: outside the year and month views, which move the
\* cursors of their own tables, the week table's cursor goes up one row
action_cursor_up ==
    /\ AppAcceptsKeys
    /\ app.view_mode \notin {"year", "month"}
    /\ app.cursor_row > 0
    /\ app' = [app EXCEPT !.cursor_row = app.cursor_row - 1]
    /\ notice' = None
    /\ ui_event' = UiEvent("action_cursor_up")
    /\ UNCHANGED <<pureVars, storeVars, screen, crashed>>

\* action_cursor_up taken only below TopRow
cursor_up_bounded ==
    /\ app.cursor_row > TopRow
    /\ action_cursor_up

\* action_cursor_down: outside the year and month views the week table's
\* cursor goes down one row; the table has the seven rows of the week
action_cursor_down ==
    /\ AppAcceptsKeys
    /\ app.view_mode \notin {"year", "month"}
    /\ app.cursor_row < 6
    /\ app' = [app EXCEPT !.cursor_row = app.cursor_row + 1]
    /\ notice' = None
    /\ ui_event' = UiEvent("action_cursor_down")
    /\ UNCHANGED <<pureVars, storeVars, screen, crashed>>

\* action_toggle_money, in every view: the money columns are shown or
\* hidden and the view is redrawn; in the week view the rebuilt week table
\* has its cursor on the first row, and nothing puts it back
action_toggle_money ==
    /\ AppAcceptsKeys
    /\ app' = _refresh_display([app EXCEPT !.show_money = ~@], ticket_allocations)
    /\ notice' = None
    /\ ui_event' = UiEvent("action_toggle_money")
    /\ UNCHANGED <<pureVars, storeVars, screen, crashed>>

----------------------------------------------------------------------------
(* The allocation add/edit flow of the day view *)

\* the application started today on a store that holds two tickets and no
\* entries
InitAlloc ==
    /\ cal_call = NoCall
    /\ hrs_entry = None
    /\ hrs_call = NoCall
    /\ config = EmptyTable
    /\ time_entries = EmptyTable
    /\ st_call = NoCall
    /\ tickets = save_ticket(save_ticket(EmptyTable, Ticket(T1, Support, FALSE, None),
                                        Today),
                            Ticket(T2, Project, FALSE, None), Today)
    /\ ticket_allocations = EmptyTable
    /\ app = AppStarted(time_entries, ticket_allocations, Today)
    /\ screen = None
    /\ notice = None
    /\ crashed = FALSE
    /\ ui_event = NoCall

\* the user moves between the days of the week, opens their day views
\* without editing the day, and adds and edits allocations
NextAlloc ==
    \/ cursor_up_bounded
    \/ action_cursor_down
    \/ on_data_table_row_selected
    \/ action_back_to_week
    \/ EditDay_cancel
    \/ action_add_allocation
    \/ TicketSelect_on_input_changed
    \/ TicketSelect_row_selected
    \/ TicketSelect_select_no_ticket
    \/ TicketSelect_new_ticket
    \/ EditTicket_type_text
    \/ EditTicket_save
    \/ EditTicket_cancel
    \/ TicketSelect_cancel
    \/ EditAllocation_on_input_changed
    \/ EditAllocation_save_pressed
    \/ EditAllocation_cancel

SpecAlloc == InitAlloc /\ [][NextAlloc]_vars

\* a screen of the allocation flow is open
AllocationFlowOpen(scr) ==
    scr # None /\ scr.kind \in {"TicketSelectScreen", "EditAllocationScreen"}

\* the text is a number that is zero or more
NumberFromZero(text) ==
    /\ text # NoText
    /\ text[1].kind \in {"int", "dec"}
    /\ text[1].n >= 0

(* C14: in the allocation edit flow, hours of zero delete the allocation of *)
(* (ticket, target date) and hours above zero upsert it, leaving the other  *)
(* pairs alone; the target date is the day-view date captured when the flow *)
(* started and is kept while the flow's screens are open; no allocation     *)
(* written through the flow has hours of zero or less.                      *)
C14_AllocationFlowZeroDeletesPositiveUpserts ==
    [][ /\ (~AllocationFlowOpen(screen) /\ AllocationFlowOpen(screen'))
           => /\ IsSome(app.day_view_date)
              /\ app'.allocation_target_date = app.day_view_date
        /\ AllocationFlowOpen(screen)
           => app'.allocation_target_date = app.allocation_target_date
        /\ (IsAllocationSave /\ NumberFromZero(screen.fields.hours))
           => LET hours == Decimal(screen.fields.hours[1])
                  target == app.allocation_target_date
                  iso == isoformat(Val(target))
                  stored == AllocationRows(ticket_allocations', screen.ticket_id, iso)
              IN  /\ IsSome(target)
                  /\ hours.hundredths = 0 => stored = {}
                  /\ hours.hundredths > 0 =>
                        /\ Cardinality(stored) = 1
                        /\ \A r \in stored :
                              _row_to_allocation(r)
                                  = TicketAllocation(screen.ticket_id, Val(target),
                                                     hours, FALSE)
                  /\ OtherPairsSame(ticket_allocations, ticket_allocations',
                                    screen.ticket_id, iso)
        /\ \A r \in ticket_allocations' \ ticket_allocations :
              _row_to_allocation(r).hours.hundredths > 0 ]_vars

\* hours of zero have just removed an allocation of the day in view, which
\* the day view no longer lists, while the day's other ticket and the day
\* before keep the hours the flow gave them
C14_Witness ==
    /\ app # None
    /\ ui_event = UiEvent("_save")
    /\ notice = Notice("Removed allocation", "information")
    /\ app.view_mode = "day"
    /\ Len(app.day_allocations) = 1
    /\ ticket_allocations
          = {[ticket_id |-> T1, date |-> isoformat(Val(app.day_view_date) - 1),
              hours |-> IntTok(1), entered_on_client |-> 0],
             [ticket_id |-> T2, date |-> isoformat(Val(app.day_view_date)),
              hours |-> DecTok(750), entered_on_client |-> 0]}
----------------------------------------------------------------------------
(* Calls of get_config and save_config *)

\* the Config values passed to save_config
ConfigSamples ==
    {[hourly_rate |-> r, currency |-> c, standard_day_hours |-> h, vat_rate |-> v] :
        r \in {9700, 10000}, c \in {"GBP", "EUR", "CHF"}, h \in {750, 800}, v \in {20, 0}}

\* rows a database file may hold before the first call: values for the four
\* keys and a row with a key get_config does not know
EarlierRows ==
    {[key |-> "hourly_rate", value |-> DecimalText(12000)],
     [key |-> "currency", value |-> "USD"],
     [key |-> "standard_day_hours", value |-> DecimalText(600)],
     [key |-> "vat_rate", value |-> DecimalText(1750)],
     [key |-> "theme", value |-> "dark"]}

CallSaveConfig ==
    /\ \E c \in ConfigSamples :
          /\ config' = save_config(config, c)
          /\ st_call' = [fn |-> "save_config", config |-> c]
    /\ UNCHANGED <<pureVars, time_entries, tickets, ticket_allocations, appVars>>

CallGetConfig ==
    /\ st_call' = [fn |-> "get_config", ret |-> get_config(config)]
    /\ UNCHANGED <<pureVars, config, time_entries, tickets, ticket_allocations, appVars>>

InitConfig ==
    /\ cal_call = NoCall
    /\ hrs_entry = None
    /\ hrs_call = NoCall
    /\ config \in SUBSET EarlierRows
    /\ time_entries = EmptyTable
    /\ st_call = NoCall
    /\ tickets = EmptyTable
    /\ ticket_allocations = EmptyTable
    /\ AppNotRunning

NextConfig == CallSaveConfig \/ CallGetConfig

SpecConfig == InitConfig /\ [][NextConfig]_vars

\* the four keys of Config
ConfigKeys == {"hourly_rate", "currency", "standard_day_hours", "vat_rate"}

(* C18: get_config returns the default (hourly rate 97, currency GBP,       *)
(* standard day 7.5 hours, VAT rate 0.20) for every key that has no row;    *)
(* a get_config that follows save_config(c) returns the four values of c,   *)
(* whatever was stored or saved before.                                     *)
C18_ConfigDefaultsAndRoundTrip ==
    [][ /\ st_call'.fn = "get_config" =>
              /\ ConfigRows(config, "hourly_rate") = {} => st_call'.ret.hourly_rate = 9700
              /\ ConfigRows(config, "currency") = {} => st_call'.ret.currency = "GBP"
              /\ ConfigRows(config, "standard_day_hours") = {}
                    => st_call'.ret.standard_day_hours = 750
              /\ ConfigRows(config, "vat_rate") = {} => st_call'.ret.vat_rate = 20
        /\ (st_call.fn = "save_config" /\ st_call'.fn = "get_config")
              => st_call'.ret = st_call.config
        /\ st_call'.fn = "save_config" =>
              /\ \A key \in ConfigKeys : Cardinality(ConfigRows(config', key)) = 1
              /\ \A r \in config : r.key \notin ConfigKeys => r \in config' ]_vars

\* get_config has returned saved values that are neither the defaults nor
\* the values the file held before, and the file's unknown key is still there
C18_Witness ==
    /\ st_call.fn = "get_config"
    /\ st_call.ret = [hourly_rate |-> 10000, currency |-> "EUR",
                      standard_day_hours |-> 800, vat_rate |-> 0]
    /\ ConfigRows(config, "theme") # {}
----------------------------------------------------------------------------
(* app.py: quick adjustments, cut, copy and paste, the year view and its   *)
(* holiday population                                                      *)

\* ConfirmScreen(message) as push_screen(screen, callback) puts it on the
\* stack; closure holds what the callback captured when it was defined
ConfirmScreen(callback, closure) ==
    [kind |-> "ConfirmScreen", callback |-> callback, closure |-> closure]

\* do_apply of _apply_quick_adjust once confirmed: the day becomes a day of
\* standard hours of the given type, and the cursor goes to the next row
do_apply(a, table, allocations, closure) ==
    LET new_entry == TimeEntry(closure.entry.date, closure.entry.day_of_week,
                               None, None, None,
                               Some(36 * closure.config.standard_day_hours),
                               Some(closure.adjust_type), None)
        shown == _refresh_display(
                     [a EXCEPT !.entries = Upsert(a.entries, new_entry.date, new_entry)],
                     allocations)
    IN  [table |-> save_entry(table, new_entry),
         app |-> move_cursor(shown, IF a.cursor_row < 6 THEN a.cursor_row + 1
                                    ELSE a.cursor_row),
         notice |-> Notice("recorded", "information")]

\* a variant of do_paste that leaves the adjust type out of the pasted entry
do_paste_drops_adjust_type(a, table, allocations, closure) ==
    LET clip == a.day_clipboard
        pasted == TimeEntry(closure.target.date, closure.target.day_of_week,
                            Val(clip).clock_in, Val(clip).lunch_duration,
                            Val(clip).clock_out, Val(clip).adjustment,
                            None, Val(clip).comment)
    IN  [table |-> save_entry(table, pasted),
         app |-> move_cursor(
                     _refresh_display(
                         [a EXCEPT !.entries = Upsert(a.entries, pasted.date, pasted)],
                         allocations),
                     a.cursor_row),
         notice |-> Notice("Pasted", "information")]

\* do_paste of action_paste_day once confirmed: the target day takes the
\* values of the clipboard and keeps its own date; the cursor stays
do_paste(a, table, allocations, closure) ==
    LET clip == a.day_clipboard
        field(name) == IF IsSome(clip) THEN Val(clip)[name] ELSE None
        pasted == TimeEntry(closure.target.date, closure.target.day_of_week,
                            field("clock_in"), field("lunch_duration"),
                            field("clock_out"), field("adjustment"),
                            field("adjust_type"), field("comment"))
    IN  [table |-> save_entry(table, pasted),
         app |-> move_cursor(
                     _refresh_display(
                         [a EXCEPT !.entries = Upsert(a.entries, pasted.date, pasted)],
                         allocations),
                     a.cursor_row),
         notice |-> Notice("Pasted", "information")]

\* _apply_quick_adjust(adjust_type): applies at once to a blank day, asks
\* before overwriting any other; no view mode is excluded
_apply_quick_adjust(adjust_type) ==
    /\ AppAcceptsKeys
    /\ LET entry == _get_or_create_entry(app.entries, _get_selected_date(app))
           closure == [entry |-> entry, adjust_type |-> adjust_type,
                       config |-> get_config(config)]
       IN  IF _entry_is_blank(entry)
           THEN LET done == do_apply(app, time_entries, ticket_allocations, closure)
                IN  /\ time_entries' = done.table
                    /\ app' = done.app
                    /\ notice' = done.notice
                    /\ UNCHANGED screen
           ELSE /\ screen' = ConfirmScreen("do_apply", closure)
                /\ notice' = None
                /\ UNCHANGED <<app, time_entries>>
    /\ ui_event' = [fn |-> "_apply_quick_adjust", adjust_type |-> adjust_type]
    /\ UNCHANGED <<pureVars, config, tickets, ticket_allocations, st_call, crashed>>

action_quick_leave == _apply_quick_adjust("L")

action_quick_sick == _apply_quick_adjust("S")

action_quick_training == _apply_quick_adjust("T")

\* Yes in the confirmation dialog: dismiss(True), then the callback
Confirm_yes ==
    /\ ModalOpen("ConfirmScreen")
    /\ screen.callback \in {"do_apply", "do_paste"}
    /\ LET done == IF screen.callback = "do_apply"
                   THEN do_apply(app, time_entries, ticket_allocations, screen.closure)
                   ELSE do_paste(app, time_entries, ticket_allocations, screen.closure)
       IN  /\ time_entries' = done.table
           /\ app' = done.app
           /\ notice' = done.notice
    /\ screen' = None
    /\ ui_event' = [fn |-> screen.callback, confirmed |-> TRUE]
    /\ UNCHANGED <<pureVars, config, tickets, ticket_allocations, st_call, crashed>>

\* No or Escape in the confirmation dialog: the callback returns at once
Confirm_no ==
    /\ ModalOpen("ConfirmScreen")
    /\ screen' = screen_under(screen)
    /\ notice' = None
    /\ ui_event' = [fn |-> screen.callback, confirmed |-> FALSE]
    /\ UNCHANGED <<pureVars, storeVars, app, crashed>>

\* action_cut_day: the cached entry of the cursor's day goes to the
\* clipboard and an entry without values is stored in its place
action_cut_day ==
    /\ AppAcceptsKeys
    /\ app.view_mode = "week"
    /\ LET selected_date == _get_selected_date(app)
       IN  IF selected_date \notin DOMAIN app.entries
              \/ _entry_is_blank(app.entries[selected_date])
           THEN /\ notice' = Notice("Nothing to cut", "information")
                /\ UNCHANGED <<app, time_entries>>
           ELSE LET entry == app.entries[selected_date]
                    cleared == TimeEntry(entry.date, entry.day_of_week,
                                         None, None, None, None, None, None)
                IN  /\ time_entries' = save_entry(time_entries, cleared)
                    /\ app' = move_cursor(
                                  _refresh_display(
                                      [app EXCEPT !.day_clipboard = Some(entry),
                                                  !.entries = Upsert(app.entries,
                                                                     cleared.date, cleared)],
                                      ticket_allocations),
                                  app.cursor_row)
                    /\ notice' = Notice("Cut", "information")
    /\ ui_event' = UiEvent("action_cut_day")
    /\ UNCHANGED <<pureVars, config, tickets, ticket_allocations, st_call, screen, crashed>>

\* a variant of action_copy_day that copies in every view
action_copy_day_any_view ==
    /\ AppAcceptsKeys
    /\ LET selected_date == _get_selected_date(app)
       IN  IF selected_date \notin DOMAIN app.entries
              \/ _entry_is_blank(app.entries[selected_date])
           THEN /\ notice' = Notice("Nothing to copy", "information")
                /\ UNCHANGED app
           ELSE /\ app' = [app EXCEPT !.day_clipboard = Some(app.entries[selected_date])]
                /\ notice' = Notice("Copied", "information")
    /\ ui_event' = UiEvent("action_copy_day")
    /\ UNCHANGED <<pureVars, storeVars, screen, crashed>>

\* action_copy_day: the cached entry of the cursor's day goes to the clipboard
action_copy_day ==
    /\ AppAcceptsKeys
    /\ app.view_mode = "week"
    /\ LET selected_date == _get_selected_date(app)
       IN  IF selected_date \notin DOMAIN app.entries
              \/ _entry_is_blank(app.entries[selected_date])
           THEN /\ notice' = Notice("Nothing to copy", "information")
                /\ UNCHANGED app
           ELSE /\ app' = [app EXCEPT !.day_clipboard = Some(app.entries[selected_date])]
                /\ notice' = Notice("Copied", "information")
    /\ ui_event' = UiEvent("action_copy_day")
    /\ UNCHANGED <<pureVars, storeVars, screen, crashed>>

\* action_paste_day: pastes at once onto a blank day, asks before
\* overwriting any other
action_paste_day ==
    /\ AppAcceptsKeys
    /\ app.view_mode = "week"
    /\ IF ~IsSome(app.day_clipboard)
       THEN /\ notice' = Notice("Clipboard is empty", "information")
            /\ UNCHANGED <<app, screen, time_entries>>
       ELSE LET target == _get_or_create_entry(app.entries, _get_selected_date(app))
                closure == [target |-> target]
            IN  IF _entry_is_blank(target)
                THEN LET done == do_paste(app, time_entries, ticket_allocations, closure)
                     IN  /\ time_entries' = done.table
                         /\ app' = done.app
                         /\ notice' = done.notice
                         /\ UNCHANGED screen
                ELSE /\ screen' = ConfirmScreen("do_paste", closure)
                     /\ notice' = None
                     /\ UNCHANGED <<app, time_entries>>
    /\ ui_event' = UiEvent("action_paste_day")
    /\ UNCHANGED <<pureVars, config, tickets, ticket_allocations, st_call, crashed>>

\* action_year_view from the week view: the cursor's date is remembered
action_year_view ==
    /\ AppAcceptsKeys
    /\ app.view_mode = "week"
    /\ app' = _refresh_display(
                  [app EXCEPT !.last_selected_date = Some(_get_selected_date(app)),
                              !.view_mode = "year"],
                  ticket_allocations)
    /\ notice' = None
    /\ ui_event' = UiEvent("action_year_view")
    /\ UNCHANGED <<pureVars, storeVars, screen, crashed>>

\* _select_day_in_week: the cursor goes to the date selected last if this
\* week holds it, else to today if this week holds it, else to Monday
_select_day_in_week(a, today) ==
    LET week_start == a.weeks[a.current_week_idx + 1][1]
        week_end == a.weeks[a.current_week_idx + 1][2]
    IN  IF /\ IsSome(a.last_selected_date)
           /\ week_start <= Val(a.last_selected_date)
           /\ Val(a.last_selected_date) <= week_end
        THEN _select_date(a, Val(a.last_selected_date))
        ELSE IF week_start <= today /\ today <= week_end
        THEN _select_date(a, today)
        ELSE _select_date(a, week_start + 2)

\* _refresh_week_display, _select_day_in_week and action_month_view read
\* self.weeks[self.current_week_idx]: an IndexError past the end of the list
week_index_error(a) == a.current_week_idx >= Len(a.weeks)

\* action_week_view from the year view: the week table is rebuilt, which
\* puts its cursor on the first row, and a day of the week is selected; with
\* current_week_idx past the weeks of the month the rebuild raises
\* IndexError after view_mode is set
action_week_view_year ==
    /\ AppAcceptsKeys
    /\ app.view_mode = "year"
    /\ IF week_index_error(app)
       THEN /\ app' = [app EXCEPT !.view_mode = "week"]
            /\ crashed' = TRUE
       ELSE /\ app' = _select_day_in_week(
                         _refresh_display([app EXCEPT !.view_mode = "week"],
                                          ticket_allocations),
                         Today)
            /\ UNCHANGED crashed
    /\ notice' = None
    /\ ui_event' = UiEvent("action_week_view")
    /\ UNCHANGED <<pureVars, storeVars, screen>>

\* the months of the company year, September to August
CompanyYearMonths(company_year_start) ==
    [i \in 1..12 |-> IF i <= 4 THEN <<company_year_start, i + 8>>
                     ELSE <<company_year_start + 1, i - 4>>]

\* the loop of action_populate_holidays from the i-th month on;
\* acc = [table, count]
RECURSIVE populate_months(_, _, _, _)
populate_months(months, i, standard_hours, acc) ==
    IF i > Len(months) THEN acc
    ELSE LET r == populate_holidays(acc.table, months[i][1], months[i][2], standard_hours)
         IN  populate_months(months, i + 1, standard_hours,
                             [table |-> r.table, count |-> acc.count + r.count])

\* action_populate_holidays, year view only: the bank holidays of the twelve
\* months are stored; the cache of the current month is not reloaded
action_populate_holidays ==
    /\ AppAcceptsKeys
    /\ app.view_mode = "year"
    /\ LET done == populate_months(CompanyYearMonths(app.company_year_start), 1,
                                   get_config(config).standard_day_hours,
                                   [table |-> time_entries, count |-> 0])
       IN  /\ time_entries' = done.table
           /\ notice' = IF done.count # 0
                        THEN Notice("Added holiday entries", "information")
                        ELSE Notice("No new holidays to add", "information")
    /\ app' = _refresh_display(app, ticket_allocations)
    /\ ui_event' = UiEvent("action_populate_holidays")
    /\ UNCHANGED <<pureVars, config, tickets, ticket_allocations, st_call, screen, crashed>>
----------------------------------------------------------------------------
(* The edit paths of the week and year views *)

\* the texts typed into the adjustment and adjust-type fields: the hours are
\* cleared or set, the type is cleared or set to a letter that is no type;
\* the types come from the entries the editor opens on
DayAdjustmentTexts == {NoText, <<DecTok(750)>>}

DayAdjustTypeTexts == {EmptyText, NoBreakSpace, Text("Q")}

\* EditDayScreen.on_input_changed for the adjustment and adjust-type fields
EditDay_adjustment_changed ==
    /\ ModalOpen("EditDayScreen")
    /\ \/ \E t \in DayAdjustmentTexts : screen' = [screen EXCEPT !.fields.adjustment = t]
       \/ \E t \in DayAdjustTypeTexts :
             screen' = [screen EXCEPT !.fields.adjust_type = upper(t)]
    /\ screen' # screen
    /\ notice' = None
    /\ ui_event' = UiEvent("on_input_changed")
    /\ UNCHANGED <<pureVars, storeVars, app, crashed>>

\* an entry that names a type no editor accepts and has no adjustment
UnknownTypeDay(d) ==
    TimeEntry(d, DayName(d), None, None, None, None, Some("X"), Some(Note))

\* the stores the application starts on: each satisfies that an adjustment
\* other than zero comes with one of the four types
DaysInitialStores ==
    {save_entry(EmptyTable, FullDay(Today - 1)),
     save_entry(EmptyTable, UnknownTypeDay(Today - 1))}

InitDays ==
    /\ cal_call = NoCall
    /\ hrs_entry = None
    /\ hrs_call = NoCall
    /\ config = EmptyTable
    /\ time_entries \in DaysInitialStores
    /\ st_call = NoCall
    /\ tickets = EmptyTable
    /\ ticket_allocations = EmptyTable
    /\ app = AppStarted(time_entries, ticket_allocations, Today)
    /\ screen = None
    /\ notice = None
    /\ crashed = FALSE
    /\ ui_event = NoCall

NextDays ==
    \/ cursor_up_bounded
    \/ action_cursor_down
    \/ action_edit_day_week
    \/ EditDay_adjustment_changed
    \/ EditDay_save
    \/ EditDay_cancel
    \/ action_quick_leave
    \/ action_quick_sick
    \/ action_quick_training
    \/ Confirm_yes
    \/ Confirm_no
    \/ action_cut_day
    \/ action_copy_day
    \/ action_paste_day
    \/ action_year_view
    \/ action_week_view_year
    \/ action_populate_holidays

SpecDays == InitDays /\ [][NextDays]_vars

\* the four adjust types
AdjustTypes == {"L", "S", "T", "P"}

\* the row has no adjustment other than zero, or one of the four types
AdjustmentHasType(row) ==
    (IsSome(row.adjustment_minutes) /\ Val(row.adjustment_minutes) # 0)
        => (IsSome(row.adjust_type) /\ Val(row.adjust_type) \in AdjustTypes)

(* C19: every time entry written through the edit paths of the application  *)
(* (day editor, quick leave, sick and training, cut, paste, holiday         *)
(* population) has, with an adjustment other than zero, an adjust type of   *)
(* L, S, T or P: from a store that satisfies this, every store reached by   *)
(* these operations satisfies it.                                           *)
C19_AdjustmentHasTypeInvariant ==
    \A row \in time_entries : AdjustmentHasType(row)

\* a paste has just put the sick day of one date on another, in a store
\* that also holds a day of leave and the populated holidays
C19_Witness ==
    /\ app # None
    /\ notice = Notice("Pasted", "information")
    /\ \E row \in RowsOfDate(time_entries, isoformat(_get_selected_date(app))) :
          /\ row.adjustment_minutes = Some(450)
          /\ row.adjust_type = Some("S")
          /\ IsSome(app.day_clipboard)
          /\ Val(app.day_clipboard).date # _get_selected_date(app)
    /\ \E row \in time_entries : row.adjust_type = Some("P")
    /\ \E row \in time_entries : row.adjust_type = Some("L")
----------------------------------------------------------------------------
(* app.py: navigation between the views and through the weeks, months and  *)
(* company years                                                           *)

\* months before the month of Today that the navigation reaches
NavMonthsBack == 0

\* months after the month of Today that the navigation reaches
NavMonthsAhead == 3

\* company years after the one of Today that the year view reaches
NavYearsAhead == 1

MonthNumber(year, month) == 12 * year + month

\* the attributes stay within the months and company years explored
InNavWindow(a) ==
    /\ MonthNumber(a.current_year, a.current_month)
           \in (MonthNumber(YearOf(Today), MonthOf(Today)) - NavMonthsBack)
               .. (MonthNumber(YearOf(Today), MonthOf(Today)) + NavMonthsAhead)
    /\ a.company_year_start \in YearOf(Today) .. (YearOf(Today) + NavYearsAhead)

\* check_action: whether the binding of the action is enabled in the view
check_action(a, action) ==
    CASE action = "week_view" -> a.view_mode # "week"
      [] action = "month_view" -> a.view_mode \notin {"month", "day"}
      [] action = "year_view" -> a.view_mode \notin {"year", "day"}
      [] action = "populate_holidays" -> a.view_mode = "year"
      [] action = "edit_day" -> a.view_mode \in {"week", "day"}
      [] action \in {"add_allocation", "delete_allocation", "back_to_week",
                     "toggle_entered"} -> a.view_mode = "day"
      [] action = "allocations_view" -> a.view_mode # "allocations"
      [] OTHER -> TRUE

\* a variant of prev_month that stays in the same year
prev_month_same_year(year, month) == IF month = 1 THEN <<year, 12>> ELSE <<year, month - 1>>

\* the month before (year, month): January follows December of the year before
prev_month(year, month) == IF month = 1 THEN <<year - 1, 12>> ELSE <<year, month - 1>>

\* the month after (year, month): December precedes January of the year after
next_month(year, month) == IF month = 12 THEN <<year + 1, 1>> ELSE <<year, month + 1>>

\* a variant of show_month that keeps the week list of the month left
show_month_keeps_weeks(a, table, ym) ==
    [a EXCEPT !.current_year = ym[1],
              !.current_month = ym[2],
              !.entries = _load_month_data(table, ym[1], ym[2])]

\* current_year and current_month are assigned, the week list is generated
\* anew and _load_month_data fills the cache
show_month(a, table, ym) ==
    [a EXCEPT !.current_year = ym[1],
              !.current_month = ym[2],
              !.weeks = get_weeks_in_month(ym[1], ym[2]),
              !.entries = _load_month_data(table, ym[1], ym[2])]

\* the dates of the stored entries with worked hours
WorkedDates(table) ==
    {d \in {fromisoformat(r.date) : r \in table} :
        IsSome(get_entry(table, d)) /\ worked_hours(Val(get_entry(table, d))) > 0}

\* _navigate_to_prev_worked_day: the day view of the last day with worked
\* hours in the 365 days before the one shown, if there is one
_navigate_to_prev_worked_day(a, table, allocations) ==
    IF ~IsSome(a.day_view_date) THEN a
    ELSE LET d == Val(a.day_view_date)
             found == {c \in WorkedDates(table) : d - 365 <= c /\ c <= d - 1}
         IN  IF found = {} THEN a
             ELSE _navigate_to_day_view(
                      a, CHOOSE c \in found : \A o \in found : o <= c, allocations)

\* _navigate_to_next_worked_day: the day view of the first day with worked
\* hours in the 365 days after the one shown, if there is one
_navigate_to_next_worked_day(a, table, allocations) ==
    IF ~IsSome(a.day_view_date) THEN a
    ELSE LET d == Val(a.day_view_date)
             found == {c \in WorkedDates(table) : d + 1 <= c /\ c <= d + 365}
         IN  IF found = {} THEN a
             ELSE _navigate_to_day_view(
                      a, CHOOSE c \in found : \A o \in found : c <= o, allocations)

\* the attributes after action_prev_week
after_prev_week(a, table, allocations) ==
    CASE a.view_mode = "day" -> _navigate_to_prev_worked_day(a, table, allocations)
      [] a.view_mode = "year" ->
            _refresh_display([a EXCEPT !.company_year_start = @ - 1], allocations)
      [] a.view_mode = "month" ->
            _refresh_display(
                show_month(a, table, prev_month(a.current_year, a.current_month)),
                allocations)
      [] OTHER ->
            move_cursor(
                IF a.current_week_idx > 0
                THEN _refresh_display([a EXCEPT !.current_week_idx = @ - 1], allocations)
                ELSE LET moved == show_month(a, table,
                                             prev_month(a.current_year, a.current_month))
                     IN  _refresh_display(
                             [moved EXCEPT !.current_week_idx = Len(moved.weeks) - 1],
                             allocations),
                a.cursor_row)

\* the attributes after action_next_week
after_next_week(a, table, allocations) ==
    CASE a.view_mode = "day" -> _navigate_to_next_worked_day(a, table, allocations)
      [] a.view_mode = "year" ->
            _refresh_display([a EXCEPT !.company_year_start = @ + 1], allocations)
      [] a.view_mode = "month" ->
            _refresh_display(
                show_month(a, table, next_month(a.current_year, a.current_month)),
                allocations)
      [] OTHER ->
            move_cursor(
                IF a.current_week_idx < Len(a.weeks) - 1
                THEN _refresh_display([a EXCEPT !.current_week_idx = @ + 1], allocations)
                ELSE LET moved == show_month(a, table,
                                             next_month(a.current_year, a.current_month))
                     IN  _refresh_display([moved EXCEPT !.current_week_idx = 0],
                                          allocations),
                a.cursor_row)

\* action_prev_week: the day before with worked hours in the day view, the
\* company year before in the year view, the month before in the month
\* view, else the week before; the week table's cursor keeps its row
action_prev_week ==
    /\ AppAcceptsKeys
    /\ app' = after_prev_week(app, time_entries, ticket_allocations)
    /\ InNavWindow(app')
    /\ notice' = None
    /\ ui_event' = UiEvent("action_prev_week")
    /\ UNCHANGED <<pureVars, storeVars, screen, crashed>>

\* action_next_week: the same steps forward
action_next_week ==
    /\ AppAcceptsKeys
    /\ app' = after_next_week(app, time_entries, ticket_allocations)
    /\ InNavWindow(app')
    /\ notice' = None
    /\ ui_event' = UiEvent("action_next_week")
    /\ UNCHANGED <<pureVars, storeVars, screen, crashed>>

\* _set_view_mode("week") and _select_day_in_week: the week table is rebuilt
\* and a day of the week is selected
enter_week_view(a, allocations, today) ==
    _select_day_in_week(
        _refresh_display([a EXCEPT !.view_mode = "week"], allocations),
        today)

\* action_week_view from the month view (the week of the month table's
\* cursor row), the year view and the allocations report (the current
\* week); from the day view it is action_back_to_week
action_week_view ==
    /\ AppAcceptsKeys
    /\ check_action(app, "week_view")
    /\ app.view_mode # "day"
    /\ IF app.view_mode = "month"
       THEN /\ \E row \in 1..Len(app.weeks) :
                  app' = enter_week_view([app EXCEPT !.current_week_idx = row - 1],
                                         ticket_allocations, Today)
            /\ UNCHANGED crashed
       ELSE IF week_index_error(app)
       THEN /\ app' = [app EXCEPT !.view_mode = "week"]
            /\ crashed' = TRUE
       ELSE /\ app' = enter_week_view(app, ticket_allocations, Today)
            /\ UNCHANGED crashed
    /\ notice' = None
    /\ ui_event' = UiEvent("action_week_view")
    /\ UNCHANGED <<pureVars, storeVars, screen>>

\* on_data_table_row_selected in month view: Enter on the row of a week
\* goes to that week in the week view
row_selected_month ==
    /\ AppAcceptsKeys
    /\ app.view_mode = "month"
    /\ \E row \in 1..Len(app.weeks) :
          app' = enter_week_view([app EXCEPT !.current_week_idx = row - 1],
                                 ticket_allocations, Today)
    /\ notice' = None
    /\ ui_event' = UiEvent("on_data_table_row_selected")
    /\ UNCHANGED <<pureVars, storeVars, screen, crashed>>

\* _navigate_to_month_view: the month view of the given month
_navigate_to_month_view(a, table, allocations, year, month) ==
    _refresh_display(
        [show_month(a, table, <<year, month>>) EXCEPT !.current_week_idx = 0,
                                                      !.view_mode = "month"],
        allocations)

\* action_month_view: from the year view the month of the year table's
\* cursor row; from the week view and the allocations report the current
\* month, the cursor's date being remembered when the week view is left
action_month_view ==
    /\ AppAcceptsKeys
    /\ check_action(app, "month_view")
    /\ IF app.view_mode = "year"
       THEN /\ \E row \in 1..12 :
                  LET ym == CompanyYearMonths(app.company_year_start)[row]
                  IN  app' = _navigate_to_month_view(app, time_entries,
                                                     ticket_allocations, ym[1], ym[2])
            /\ InNavWindow(app')
            /\ UNCHANGED crashed
       ELSE IF week_index_error(app)
       THEN /\ crashed' = TRUE
            /\ UNCHANGED app
       ELSE /\ app' = _refresh_display(
                          [app EXCEPT !.last_selected_date =
                                          IF app.view_mode = "week"
                                          THEN Some(_get_selected_date(app)) ELSE @,
                                      !.view_mode = "month"],
                          ticket_allocations)
            /\ UNCHANGED crashed
    /\ notice' = None
    /\ ui_event' = UiEvent("action_month_view")
    /\ UNCHANGED <<pureVars, storeVars, screen>>

\* on_data_table_row_selected in year view: Enter on the row of a month
\* goes to the month view of that month
row_selected_year ==
    /\ AppAcceptsKeys
    /\ app.view_mode = "year"
    /\ \E row \in 1..12 :
          LET ym == CompanyYearMonths(app.company_year_start)[row]
          IN  app' = _navigate_to_month_view(app, time_entries, ticket_allocations,
                                             ym[1], ym[2])
    /\ InNavWindow(app')
    /\ notice' = None
    /\ ui_event' = UiEvent("on_data_table_row_selected")
    /\ UNCHANGED <<pureVars, storeVars, screen, crashed>>

\* action_year_view from the month view and the allocations report
action_year_view_other ==
    /\ AppAcceptsKeys
    /\ check_action(app, "year_view")
    /\ app.view_mode # "week"
    /\ app' = _refresh_display([app EXCEPT !.view_mode = "year"], ticket_allocations)
    /\ notice' = None
    /\ ui_event' = UiEvent("action_year_view")
    /\ UNCHANGED <<pureVars, storeVars, screen, crashed>>

\* action_allocations_view: the cursor's date is remembered when the week
\* view is left
action_allocations_view ==
    /\ AppAcceptsKeys
    /\ check_action(app, "allocations_view")
    /\ app' = _refresh_display(
                  [app EXCEPT !.last_selected_date =
                                  IF app.view_mode = "week"
                                  THEN Some(_get_selected_date(app)) ELSE @,
                              !.view_mode = "allocations"],
                  ticket_allocations)
    /\ notice' = None
    /\ ui_event' = UiEvent("action_allocations_view")
    /\ UNCHANGED <<pureVars, storeVars, screen, crashed>>

\* the attributes after action_goto_today
after_goto_today(a, table, allocations, today) ==
    LET year == YearOf(today)
        month == MonthOf(today)
        moved == show_month(a, table, <<year, month>>)
        placed == [moved EXCEPT
                      !.current_week_idx = _find_week_for_date(moved.weeks, today),
                      !.company_year_start = IF month >= 9 THEN year ELSE year - 1,
                      !.view_mode = "week"]
    IN  _select_date(_refresh_display(placed, allocations), today)

\* action_goto_today: the week view of the week of today
action_goto_today ==
    /\ AppAcceptsKeys
    /\ app' = after_goto_today(app, time_entries, ticket_allocations, Today)
    /\ notice' = None
    /\ ui_event' = UiEvent("action_goto_today")
    /\ UNCHANGED <<pureVars, storeVars, screen, crashed>>

\* the store the navigation runs on: days with worked hours in four months
NavStore ==
    save_entry(save_entry(save_entry(save_entry(EmptyTable,
        FullDay(Date(2026, 10, 2))), FullDay(Today - 1)),
        FullDay(Date(2026, 11, 6))), FullDay(Date(2027, 1, 4)))

InitNav ==
    /\ cal_call = NoCall
    /\ hrs_entry = None
    /\ hrs_call = NoCall
    /\ config = EmptyTable
    /\ time_entries = NavStore
    /\ st_call = NoCall
    /\ tickets = EmptyTable
    /\ ticket_allocations = EmptyTable
    /\ app = AppStarted(time_entries, ticket_allocations, Today)
    /\ screen = None
    /\ notice = None
    /\ crashed = FALSE
    /\ ui_event = NoCall

NextNav ==
    \/ action_prev_week
    \/ action_next_week
    \/ action_week_view
    \/ row_selected_month
    \/ action_month_view
    \/ row_selected_year
    \/ action_year_view
    \/ action_year_view_other
    \/ action_allocations_view
    \/ action_goto_today

SpecNav == InitNav /\ [][NextNav]_vars

\* the day view is opened on today's row of the week view
day_view_of_today ==
    /\ app # None
    /\ _get_selected_date(app) = Today
    /\ row_selected_week

\* the actions that change the month shown: the week, month and year views
\* with the week, month or year before and after, the month selected in the
\* year view, today, and the day view with the way back to the week view
NextMonths ==
    \/ action_prev_week
    \/ action_next_week
    \/ action_week_view
    \/ row_selected_month
    \/ action_month_view
    \/ row_selected_year
    \/ action_year_view
    \/ action_goto_today
    \/ day_view_of_today
    \/ EditDay_cancel
    \/ action_back_to_week

SpecMonths == InitNav /\ [][NextMonths]_vars

(* C23: in every state reached by the view switches (week, month, year,    *)
(* allocations, today) and by the navigation to the week, month or year    *)
(* before and after, 0 <= current_week_idx < len(weeks), so that no        *)
(* refresh of the week view reads past the end of the week list.           *)
C23_WeekIndexInRange ==
    /\ 0 <= app.current_week_idx
    /\ app.current_week_idx < Len(app.weeks)
    /\ ~crashed

(* C26: in every reachable state current_month is one of 1..12 and weeks    *)
(* is get_weeks_in_month(current_year, current_month): every action that    *)
(* changes the month (the week and the month before and after, with the     *)
(* change of year between December and January, back to the week view from  *)
(* the day view, today, the month selected in the year view) generates the  *)
(* week list anew.                                                          *)
C26_WeeksOfCurrentMonth ==
    /\ app.current_month \in 1..12
    /\ app.weeks = get_weeks_in_month(app.current_year, app.current_month)

\* the day view has gone from a day of 2026 to the worked day of January
\* 2027, across the end of the year, and action_back_to_week has changed the
\* month shown to January 2027, whose six weeks the week list holds
C26_Witness ==
    /\ ui_event.fn = "action_back_to_week"
    /\ app.view_mode = "week"
    /\ app.last_selected_date = Some(Date(2027, 1, 4))
    /\ app.current_year = YearOf(Today) + 1
    /\ app.current_month = 1
    /\ Len(app.weeks) = 6

\* the attributes the navigation moves
NavState(a) ==
    <<a.current_year, a.current_month, a.current_week_idx, a.company_year_start>>

(* C27: in the week, month and year view, action_next_week followed by      *)
(* action_prev_week, and action_prev_week followed by action_next_week,     *)
(* restore current_year, current_month, current_week_idx and                *)
(* company_year_start, also across the end of a month and of a year.        *)
C27_PrevNextInverse ==
    (AppAcceptsKeys /\ app.view_mode \in {"week", "month", "year"}) =>
        /\ NavState(after_prev_week(
                        after_next_week(app, time_entries, ticket_allocations),
                        time_entries, ticket_allocations)) = NavState(app)
        /\ NavState(after_next_week(
                        after_prev_week(app, time_entries, ticket_allocations),
                        time_entries, ticket_allocations)) = NavState(app)

\* action_prev_week has come back from the first week of January 2027 to
\* the last week of December 2026, from where action_next_week changes the
\* year again
C27_Witness ==
    /\ ui_event.fn = "action_prev_week"
    /\ app.view_mode = "week"
    /\ app.current_year = YearOf(Today)
    /\ app.current_month = 12
    /\ app.current_week_idx = Len(app.weeks) - 1
    /\ after_next_week(app, time_entries, ticket_allocations).current_year
           = YearOf(Today) + 1
----------------------------------------------------------------------------
(* The day view and the way back to the week view *)

NextBack ==
    \/ cursor_up_bounded
    \/ action_cursor_down
    \/ action_prev_week
    \/ action_next_week
    \/ row_selected_week
    \/ EditDay_cancel
    \/ action_back_to_week

SpecBack == InitNav /\ [][NextBack]_vars

\* the dates of a month
MonthDates(year, month) == Date(year, month, 1) .. Date(year, month, DaysInMonth(year, month))

\* the cache holds entries of the current month only, and for each date of
\* that month the stored entry, or none when none is stored
CacheMirrorsStore(a, table) ==
    /\ \A d \in DOMAIN a.entries :
          YearOf(d) = a.current_year /\ MonthOf(d) = a.current_month
    /\ \A d \in MonthDates(a.current_year, a.current_month) :
          IF d \in DOMAIN a.entries
          THEN get_entry(table, d) = Some(a.entries[d])
          ELSE get_entry(table, d) = None

(* C30: after action_back_to_week in the day view of a date d (the week     *)
(* view key in the day view runs the same handler), view_mode is "week",    *)
(* current_year and current_month are those of d, weeks is the week list    *)
(* of that month and weeks[current_week_idx] holds d; when the month has    *)
(* changed the cache holds the stored entries of the new month; the store   *)
(* is unchanged.                                                           *)
C30_BackToWeek ==
    [][ (ui_event'.fn = "action_back_to_week" /\ IsSome(app.day_view_date)) =>
            LET d == Val(app.day_view_date)
            IN  /\ app'.view_mode = "week"
                /\ app'.current_year = YearOf(d)
                /\ app'.current_month = MonthOf(d)
                /\ app'.weeks = get_weeks_in_month(YearOf(d), MonthOf(d))
                /\ app'.current_week_idx \in 0..(Len(app'.weeks) - 1)
                /\ app'.weeks[app'.current_week_idx + 1][1] <= d
                /\ d <= app'.weeks[app'.current_week_idx + 1][2]
                /\ (YearOf(d) # app.current_year \/ MonthOf(d) # app.current_month)
                      => CacheMirrorsStore(app', time_entries')
                /\ UNCHANGED <<config, time_entries, tickets, ticket_allocations>>
      ]_vars

\* the day view went from 6 November 2026 to the next worked day, 4 January
\* 2027, and action_back_to_week has changed the month to January 2027
C30_Witness ==
    /\ ui_event.fn = "action_back_to_week"
    /\ app.view_mode = "week"
    /\ app.day_view_date = Some(Date(2027, 1, 4))
    /\ app.current_year = 2027
    /\ app.current_month = 1
    /\ app.current_week_idx = 1
    /\ Date(2027, 1, 4) \in DOMAIN app.entries
----------------------------------------------------------------------------
(* The cache of the displayed month under week navigation and quick leave *)

\* most rows the store of time entries holds when a quick adjustment is made
MaxStoredDays == 3

\* the store the application starts on: a worked day today and a worked day
\* on the first Friday of the next month
CacheStore ==
    save_entry(save_entry(EmptyTable, FullDay(Today)), FullDay(Date(2026, 11, 6)))

InitCache ==
    /\ cal_call = NoCall
    /\ hrs_entry = None
    /\ hrs_call = NoCall
    /\ config = EmptyTable
    /\ time_entries = CacheStore
    /\ st_call = NoCall
    /\ tickets = EmptyTable
    /\ ticket_allocations = EmptyTable
    /\ app = AppStarted(time_entries, ticket_allocations, Today)
    /\ screen = None
    /\ notice = None
    /\ crashed = FALSE
    /\ ui_event = NoCall

\* quick leave while the store holds fewer than MaxStoredDays rows
quick_leave_bounded ==
    /\ Cardinality(time_entries) < MaxStoredDays
    /\ action_quick_leave

\* paste while the store holds fewer than MaxStoredDays rows
paste_day_bounded ==
    /\ Cardinality(time_entries) < MaxStoredDays
    /\ action_paste_day

NextCache ==
    \/ action_prev_week
    \/ action_next_week
    \/ quick_leave_bounded
    \/ Confirm_yes
    \/ Confirm_no
    \/ action_copy_day
    \/ paste_day_bounded

SpecCache == InitCache /\ [][NextCache]_vars

(* C21: the cache of entries mirrors the store for the displayed month: in  *)
(* every state reached by navigation, quick adjustment, copy and paste the  *)
(* cache holds entries only for dates of (current_year, current_month),     *)
(* and for each such date the cached entry equals the stored one (absent    *)
(* in both, or equal in all fields).                                        *)
C21_CacheInvariant == CacheMirrorsStore(app, time_entries)

\* the stored row holds a clock-in, a clock-out or an adjustment
RowHoldsData(row) ==
    IsSome(row.clock_in) \/ IsSome(row.clock_out) \/ IsSome(row.adjustment_minutes)

(* C25: quick adjust and paste never replace a stored entry that holds a    *)
(* clock-in, a clock-out or an adjustment unless the user has confirmed     *)
(* the overwrite dialog: the handlers themselves leave every such row in    *)
(* place, and a declined dialog leaves the store and the cache unchanged.   *)
C25_NoOverwriteWithoutConfirmation ==
    [][ /\ ui_event'.fn \in {"_apply_quick_adjust", "action_paste_day"} =>
              \A row \in time_entries : RowHoldsData(row) => row \in time_entries'
        /\ (ui_event'.fn \in {"do_apply", "do_paste"} /\ ~ui_event'.confirmed) =>
              /\ time_entries' = time_entries
              /\ app'.entries = app.entries
      ]_vars
----------------------------------------------------------------------------
(* Tickets and allocations through the screens: ticket management, the     *)
(* allocations of the day view and the allocations report                  *)

\* archive_ticket: UPDATE tickets SET archived = 1 WHERE id = ?
archive_ticket(table, ticket_id) ==
    {IF r.id = ticket_id THEN [r EXCEPT !.archived = 1] ELSE r : r \in table}

\* unarchive_ticket: UPDATE tickets SET archived = 0 WHERE id = ?
unarchive_ticket(table, ticket_id) ==
    {IF r.id = ticket_id THEN [r EXCEPT !.archived = 0] ELSE r : r \in table}

\* TicketManagementScreen() as push_screen puts it on the stack; search is
\* the text of its search input
TicketManagementScreen ==
    [kind |-> "TicketManagementScreen", show_archived |-> FALSE, search |-> EmptyText]

\* action_manage_tickets: the ticket management screen opens in any view
action_manage_tickets ==
    /\ AppAcceptsKeys
    /\ screen' = TicketManagementScreen
    /\ notice' = None
    /\ ui_event' = UiEvent("action_manage_tickets")
    /\ UNCHANGED <<pureVars, storeVars, app, crashed>>

\* TicketManagementScreen.on_checkbox_changed: archived tickets are listed or not
TicketManagement_on_checkbox_changed ==
    /\ ModalOpen("TicketManagementScreen")
    /\ screen' = [screen EXCEPT !.show_archived = ~@]
    /\ notice' = None
    /\ ui_event' = UiEvent("on_checkbox_changed")
    /\ UNCHANGED <<pureVars, storeVars, app, crashed>>

\* TicketManagementScreen.on_input_changed: the table is filled again with
\* the tickets the text finds
TicketManagement_on_input_changed ==
    /\ ModalOpen("TicketManagementScreen")
    /\ \E t \in SearchTexts : screen' = [screen EXCEPT !.search = t]
    /\ screen' # screen
    /\ notice' = None
    /\ ui_event' = UiEvent("on_input_changed")
    /\ UNCHANGED <<pureVars, storeVars, app, crashed>>

\* action_toggle_archive on the ticket of the cursor's row; a warning when
\* the table has no row
TicketManagement_toggle_archive ==
    /\ ModalOpen("TicketManagementScreen")
    /\ IF TicketsListed(tickets, screen.search, screen.show_archived) = {}
       THEN /\ notice' = Notice("No ticket selected", "warning")
            /\ UNCHANGED tickets
       ELSE \E ticket_id \in TicketsListed(tickets, screen.search, screen.show_archived) :
               LET ticket == Val(get_ticket(tickets, ticket_id))
               IN  IF ticket.archived
                   THEN /\ tickets' = unarchive_ticket(tickets, ticket_id)
                        /\ notice' = TicketNotice("Ticket {ticket_id} unarchived",
                                                  ticket_id, "information")
                   ELSE /\ tickets' = archive_ticket(tickets, ticket_id)
                        /\ notice' = TicketNotice("Ticket {ticket_id} archived",
                                                  ticket_id, "information")
    /\ ui_event' = UiEvent("action_toggle_archive")
    /\ UNCHANGED <<pureVars, config, time_entries, ticket_allocations, st_call,
                   app, screen, crashed>>

\* ConfirmScreen(message) as push_screen(screen, callback) puts it on top of
\* the modal screen that opened it
ConfirmScreenOver(callback, closure, under) ==
    [kind |-> "ConfirmScreen", callback |-> callback, closure |-> closure,
     under |-> under]

\* action_delete_ticket on the ticket of the cursor's row: a warning when
\* the table has no row, refused when the ticket has allocations, else the
\* confirmation dialog opens on top of the management screen
TicketManagement_delete_ticket ==
    /\ ModalOpen("TicketManagementScreen")
    /\ IF TicketsListed(tickets, screen.search, screen.show_archived) = {}
       THEN /\ notice' = Notice("No ticket selected", "warning")
            /\ UNCHANGED screen
       ELSE \E ticket_id \in TicketsListed(tickets, screen.search, screen.show_archived) :
               IF ~can_delete_ticket(ticket_allocations, ticket_id)
               THEN /\ notice' = TicketNotice(
                                        "Cannot delete {ticket_id}: has time allocations",
                                        ticket_id, "error")
                    /\ UNCHANGED screen
               ELSE /\ screen' = ConfirmScreenOver("_on_delete_confirmed",
                                                   [ticket_id |-> ticket_id], screen)
                    /\ notice' = None
    /\ ui_event' = UiEvent("action_delete_ticket")
    /\ UNCHANGED <<pureVars, storeVars, app, crashed>>

\* Yes in the dialog of action_delete_ticket: _on_delete_confirmed deletes
\* the ticket of the cursor's row, which the dialog did not move, and the
\* management screen is on top again
Confirm_delete_ticket ==
    /\ ModalOpen("ConfirmScreen")
    /\ screen.callback = "_on_delete_confirmed"
    /\ LET ticket_id == screen.closure.ticket_id
           deleted == delete_ticket(tickets, ticket_allocations, ticket_id)
       IN  /\ tickets' = deleted.table
           /\ notice' = IF deleted.ret
                        THEN TicketNotice("Ticket {ticket_id} deleted", ticket_id,
                                          "information")
                        ELSE None
    /\ screen' = screen.under
    /\ ui_event' = [fn |-> screen.callback, confirmed |-> TRUE]
    /\ UNCHANGED <<pureVars, config, time_entries, ticket_allocations, st_call,
                   app, crashed>>

\* action_close of the management screen
TicketManagement_close ==
    /\ ModalOpen("TicketManagementScreen")
    /\ screen' = None
    /\ notice' = None
    /\ ui_event' = UiEvent("action_close")
    /\ UNCHANGED <<pureVars, storeVars, app, crashed>>

\* action_delete_allocation: in the day view, with the day table's cursor
\* on the row of an allocation, the confirmation dialog opens
action_delete_allocation ==
    /\ AppAcceptsKeys
    /\ app.view_mode = "day"
    /\ IsSome(app.day_view_date)
    /\ IF Len(app.day_allocations) = 0
       THEN /\ notice' = Notice("No allocations to delete", "warning")
            /\ UNCHANGED screen
       ELSE /\ \E i \in 1..Len(app.day_allocations) :
                  screen' = ConfirmScreen("_on_delete_allocation_confirmed",
                                          [ticket_id |-> app.day_allocations[i].ticket_id])
            /\ notice' = None
    /\ ui_event' = UiEvent("action_delete_allocation")
    /\ UNCHANGED <<pureVars, storeVars, app, crashed>>

\* Yes in the dialog of action_delete_allocation:
\* _on_delete_allocation_confirmed deletes the allocation of the ticket on
\* the day shown
Confirm_delete_allocation ==
    /\ ModalOpen("ConfirmScreen")
    /\ screen.callback = "_on_delete_allocation_confirmed"
    /\ IF IsSome(app.day_view_date)
       THEN LET table == delete_allocation(ticket_allocations, screen.closure.ticket_id,
                                           Val(app.day_view_date))
            IN  /\ ticket_allocations' = table
                /\ app' = _refresh_display(app, table)
                /\ notice' = Notice("Deleted allocation", "information")
       ELSE /\ notice' = None
            /\ UNCHANGED <<ticket_allocations, app>>
    /\ screen' = None
    /\ ui_event' = [fn |-> screen.callback, confirmed |-> TRUE]
    /\ UNCHANGED <<pureVars, config, time_entries, tickets, st_call, crashed>>

\* a variant of toggled_allocation that resets the hours
toggled_allocation_resets_hours(alloc) ==
    TicketAllocation(alloc.ticket_id, alloc.date, Decimal(IntTok(0)),
                     ~alloc.entered_on_client)

\* the allocation with its entered_on_client flag inverted
toggled_allocation(alloc) ==
    TicketAllocation(alloc.ticket_id, alloc.date, alloc.hours, ~alloc.entered_on_client)

\* action_toggle_entered with the day table's cursor on row i: the store
\* and the attributes after it
after_toggle_entered(a, allocations, i) ==
    LET table == save_allocation(allocations, toggled_allocation(a.day_allocations[i]))
    IN  [table |-> table, app |-> _refresh_display(a, table)]

\* action_toggle_entered: in the day view, the allocation of the cursor's
\* row is stored with its flag inverted
action_toggle_entered ==
    /\ AppAcceptsKeys
    /\ app.view_mode = "day"
    /\ IsSome(app.day_view_date)
    /\ IF Len(app.day_allocations) = 0
       THEN /\ notice' = None
            /\ ui_event' = [fn |-> "action_toggle_entered", row |-> 0]
            /\ UNCHANGED <<ticket_allocations, app>>
       ELSE \E i \in 1..Len(app.day_allocations) :
               LET done == after_toggle_entered(app, ticket_allocations, i)
               IN  /\ ticket_allocations' = done.table
                   /\ app' = done.app
                   /\ notice' = Notice(IF app.day_allocations[i].entered_on_client
                                       THEN "unmarked" ELSE "marked as entered",
                                       "information")
                   /\ ui_event' = [fn |-> "action_toggle_entered", row |-> i]
    /\ UNCHANGED <<pureVars, config, time_entries, tickets, st_call, screen, crashed>>

\* the dates of the columns the report's cursor is put on
ReportDates == {Today - 1, Today}

\* the store after _toggle_allocation_entered_state on the cell of a
\* ticket's row and a date's column
after_toggle_cell(allocations, ticket_id, d) ==
    LET found == get_allocations_for_date(allocations, d)
        hits == {k \in 1..Len(found) : found[k].ticket_id = ticket_id}
    IN  IF hits = {} THEN allocations
        ELSE save_allocation(allocations,
                             toggled_allocation(found[CHOOSE k \in hits : TRUE]))

\* _toggle_allocation_entered_state: in the allocations report, c or Enter
\* on the cell of a ticket that has allocations in the month and of a day
\* of the month shown
_toggle_allocation_entered_state ==
    /\ AppAcceptsKeys
    /\ app.view_mode = "allocations"
    /\ \E d \in ReportDates :
        \E ticket_id \in {r.ticket_id : r \in {x \in ticket_allocations :
                               x.date[1] = app.current_year
                               /\ x.date[2] = app.current_month}} :
          /\ YearOf(d) = app.current_year
          /\ MonthOf(d) = app.current_month
          /\ ticket_allocations' = after_toggle_cell(ticket_allocations, ticket_id, d)
          /\ notice' = IF ticket_allocations' # ticket_allocations
                       THEN Notice("entered state changed", "information") ELSE None
          /\ ui_event' = [fn |-> "_toggle_allocation_entered_state",
                          ticket_id |-> ticket_id, date |-> d]
    /\ app' = _refresh_display(app, ticket_allocations')
    /\ UNCHANGED <<pureVars, config, time_entries, tickets, st_call, screen, crashed>>

\* the application starts on a worked day with two tickets, one of them
\* allocated on that day and on the day before
InitRefs ==
    /\ cal_call = NoCall
    /\ hrs_entry = None
    /\ hrs_call = NoCall
    /\ config = EmptyTable
    /\ time_entries = save_entry(EmptyTable, FullDay(Today))
    /\ st_call = NoCall
    /\ tickets = save_ticket(save_ticket(EmptyTable, Ticket(T1, Support, FALSE, None),
                                        Today),
                            Ticket(T2, Project, FALSE, None), Today)
    /\ ticket_allocations =
           save_allocation(save_allocation(EmptyTable,
               TicketAllocation(T1, Today, Decimal(DecTok(750)), FALSE)),
               TicketAllocation(T1, Today - 1, Decimal(IntTok(1)), TRUE))
    /\ app = AppStarted(time_entries, ticket_allocations, Today)
    /\ screen = None
    /\ notice = None
    /\ crashed = FALSE
    /\ ui_event = NoCall

NextRefs ==
    \/ TicketSelect_select_no_ticket
    \/ TicketSelect_new_ticket
    \/ row_selected_week
    \/ row_selected_day
    \/ action_back_to_week
    \/ action_allocations_view
    \/ action_manage_tickets
    \/ TicketManagement_on_input_changed
    \/ TicketManagement_on_checkbox_changed
    \/ TicketManagement_new_ticket
    \/ TicketManagement_edit_ticket
    \/ EditTicket_type_text
    \/ EditTicket_save
    \/ EditTicket_cancel
    \/ TicketManagement_toggle_archive
    \/ TicketManagement_delete_ticket
    \/ Confirm_delete_ticket
    \/ TicketManagement_close
    \/ action_add_allocation
    \/ TicketSelect_on_input_changed
    \/ TicketSelect_row_selected
    \/ TicketSelect_cancel
    \/ EditAllocation_on_input_changed
    \/ EditAllocation_save_pressed
    \/ EditAllocation_cancel
    \/ action_delete_allocation
    \/ Confirm_delete_allocation
    \/ Confirm_no
    \/ action_toggle_entered
    \/ _toggle_allocation_entered_state

SpecRefs == InitRefs /\ [][NextRefs]_vars

\* every stored allocation names a stored ticket
AllocationsNameTickets(allocations, table) ==
    \A r \in allocations : IsSome(get_ticket(table, r.ticket_id))

(* C24: after any sequence of ticket operations (create, edit, archive,     *)
(* unarchive, delete) and allocation operations (add, edit, delete, toggle  *)
(* entered) through the screens, the ticket id of every stored allocation   *)
(* is the id of a stored ticket; the allocation editor opens for a new      *)
(* allocation only on a ticket that exists and is not archived when it is   *)
(* selected.                                                               *)
C24_AllocationsReferToTickets ==
    /\ []AllocationsNameTickets(ticket_allocations, tickets)
    /\ [][ ( /\ screen # None
              /\ screen.kind \in {"TicketSelectScreen", "EditTicketScreen"}
              /\ screen' # None
              /\ screen'.kind = "EditAllocationScreen" ) =>
              /\ IsSome(get_ticket(tickets', screen'.ticket_id))
              /\ ~Val(get_ticket(tickets', screen'.ticket_id)).archived
        ]_vars

\* an allocation of the second ticket has been saved through the editor
\* while the first ticket, which has allocations, is archived and the
\* second has been edited
C24_Witness ==
    /\ ui_event.fn = "_save"
    /\ \E r \in ticket_allocations : r.ticket_id = T2
    /\ \E r \in ticket_allocations : r.ticket_id = T1
    /\ IsSome(get_ticket(tickets, T1))
    /\ Val(get_ticket(tickets, T1)).archived
    /\ Val(get_ticket(tickets, T2)).description = Renamed

\* between this state and the next, the row of (ticket_id, d) keeps its
\* hours and has its flag inverted, and no other row changes
OnlyFlagToggled(ticket_id, d) ==
    LET before == AllocationRows(ticket_allocations, ticket_id, isoformat(d))
        after == AllocationRows(ticket_allocations', ticket_id, isoformat(d))
    IN  /\ ticket_allocations \ before = ticket_allocations' \ after
        /\ Cardinality(before) = 1
        /\ Cardinality(after) = 1
        /\ \A o \in before : \A n \in after :
              /\ n.hours = o.hours
              /\ n.entered_on_client = 1 - o.entered_on_client

(* C28: toggling entered-on-client, in the day view or in the allocations   *)
(* report, changes only that flag of the allocation of the selected ticket  *)
(* and date: its hours, ticket id and date, every other allocation, the     *)
(* tickets and the time entries stay as they are; a second toggle of the    *)
(* same cell restores the store; when the selected cell of the report has   *)
(* no allocation nothing is written.                                        *)
C28_ToggleEnteredFrame ==
    [][ /\ (ui_event'.fn = "action_toggle_entered" /\ ui_event'.row > 0) =>
              LET alloc == app.day_allocations[ui_event'.row]
              IN  /\ OnlyFlagToggled(alloc.ticket_id, alloc.date)
                  /\ after_toggle_entered(app', ticket_allocations',
                                          ui_event'.row).table = ticket_allocations
        /\ ui_event'.fn = "_toggle_allocation_entered_state" =>
              IF AllocationRows(ticket_allocations, ui_event'.ticket_id,
                                isoformat(ui_event'.date)) = {}
              THEN ticket_allocations' = ticket_allocations
              ELSE /\ OnlyFlagToggled(ui_event'.ticket_id, ui_event'.date)
                   /\ after_toggle_cell(ticket_allocations', ui_event'.ticket_id,
                                        ui_event'.date) = ticket_allocations
        /\ ui_event'.fn \in {"action_toggle_entered", "_toggle_allocation_entered_state"} =>
              UNCHANGED <<time_entries, tickets, config>>
      ]_vars

\* the report has marked today's allocation of the first ticket as entered;
\* its hours and the allocation of the day before are as they were
C28_Witness ==
    /\ ui_event.fn = "_toggle_allocation_entered_state"
    /\ ui_event.ticket_id = T1
    /\ ui_event.date = Today
    /\ [ticket_id |-> T1, date |-> isoformat(Today), hours |-> DecTok(750),
         entered_on_client |-> 1] \in ticket_allocations
    /\ [ticket_id |-> T1, date |-> isoformat(Today - 1), hours |-> IntTok(1),
         entered_on_client |-> 1] \in ticket_allocations
----------------------------------------------------------------------------
(* The handlers that act in one view only, invoked in every view *)

\* the view outside of which each of these handlers returns at its first
\* statement
RestrictedTo ==
    [action_add_allocation |-> "day",
     action_delete_allocation |-> "day",
     action_toggle_entered |-> "day",
     action_back_to_week |-> "day",
     action_populate_holidays |-> "year",
     action_cut_day |-> "week",
     action_copy_day |-> "week",
     action_paste_day |-> "week"]

\* one of these handlers is invoked in another view and returns at once
returns_outside_mode ==
    /\ AppAcceptsKeys
    /\ \E fn \in DOMAIN RestrictedTo :
          /\ app.view_mode # RestrictedTo[fn]
          /\ ui_event' = UiEvent(fn)
    /\ notice' = None
    /\ UNCHANGED <<pureVars, storeVars, app, screen, crashed>>

\* the month view, entered from the week view of today with no day copied
month_view_of_today ==
    /\ app # None
    /\ app.view_mode = "week"
    /\ _get_selected_date(app) = Today
    /\ app.day_clipboard = None
    /\ action_month_view

NextModes ==
    \/ action_year_view
    \/ action_year_view_other
    \/ month_view_of_today
    \/ action_week_view
    \/ action_allocations_view
    \/ row_selected_week
    \/ action_back_to_week
    \/ action_add_allocation
    \/ TicketSelect_cancel
    \/ action_cut_day
    \/ action_copy_day
    \/ action_paste_day
    \/ Confirm_no
    \/ action_populate_holidays
    \/ action_delete_allocation
    \/ Confirm_delete_allocation
    \/ action_toggle_entered
    \/ action_toggle_money
    \/ EditDay_cancel
    \/ returns_outside_mode

SpecModes == InitRefs /\ [][NextModes]_vars

(* C22: the handlers restricted to a view have no effect in any other: add  *)
(* allocation, delete allocation, toggle entered and back to week act in    *)
(* the day view only, populate holidays in the year view only, cut, copy    *)
(* and paste in the week view only; invoked in another view they leave the  *)
(* store, the clipboard, view_mode and the navigation state unchanged.      *)
C22_NoEffectOutsideMode ==
    [][ \A fn \in DOMAIN RestrictedTo :
            (ui_event'.fn = fn /\ app.view_mode # RestrictedTo[fn]) =>
                /\ UNCHANGED <<config, time_entries, tickets, ticket_allocations>>
                /\ app'.day_clipboard = app.day_clipboard
                /\ app'.view_mode = app.view_mode
                /\ NavState(app') = NavState(app)
                /\ app'.weeks = app.weeks
                /\ app'.day_view_date = app.day_view_date
                /\ app'.cursor_row = app.cursor_row
                /\ screen' = screen
      ]_vars

\* cut has been invoked in the day view while the clipboard holds a day
\* copied in the week view and the store holds the holidays populated in
\* the year view
C22_Witness ==
    /\ ui_event.fn = "action_cut_day"
    /\ app.view_mode = "day"
    /\ IsSome(app.day_clipboard)
    /\ \E row \in time_entries : row.adjust_type = Some("P")
    /\ get_entry(time_entries, Today) = Some(FullDay(Today))
----------------------------------------------------------------------------
(* app.py: the totals of a week and of a month, Decimal hours in hundredths *)

\* {e.date: e for e in entries}: the entry kept for a date is the last one
\* of the list with that date
entries_dict(entries) ==
    [d \in {entries[i].date : i \in DOMAIN entries} |->
        entries[CHOOSE i \in DOMAIN entries :
                    /\ entries[i].date = d
                    /\ \A j \in DOMAIN entries : entries[j].date = d => j <= i]]

\* the hours one entry adds to a column of the totals
entry_hours(entry, column) ==
    IF column = "worked" THEN worked_hours(entry)
    ELSE IF adjusted_hours(entry) = 0 THEN 0
    ELSE IF column = "leave" /\ entry.adjust_type = Some("L") THEN adjusted_hours(entry)
    ELSE IF column = "sick" /\ entry.adjust_type = Some("S") THEN adjusted_hours(entry)
    ELSE IF column = "training" /\ entry.adjust_type = Some("T") THEN adjusted_hours(entry)
    ELSE IF column = "public_holiday" /\ entry.adjust_type = Some("P")
         THEN adjusted_hours(entry)
    ELSE 0

RECURSIVE sum_entries(_, _, _)
\* the loop over entries_dict.items(), for the dates in `dates`
sum_entries(dict, dates, column) ==
    IF dates = {} THEN 0
    ELSE LET d == CHOOSE x \in dates : TRUE
         IN  entry_hours(dict[d], column) + sum_entries(dict, dates \ {d}, column)

\* the return value of _get_week_totals and of _get_month_totals
totals_dict(worked, leave, sick, training, public_holiday, weekdays, cfg) ==
    [worked |-> worked,
     max_hours |-> weekdays * cfg.standard_day_hours - public_holiday,
     leave |-> leave,
     sick |-> sick,
     training |-> training,
     public_holiday |-> public_holiday,
     total |-> worked + leave + sick + training + public_holiday]

\* a variant of _get_week_totals that sums the entries of the whole week,
\* whatever filter_month is
_get_week_totals_whole_week(table, cfg_table, week_start, week_end, filter_month) ==
    LET dict == entries_dict(get_entries_range(table, week_start, week_end))
        weekdays == Cardinality({d \in week_start..week_end :
                        /\ weekday(d) < 5
                        /\ (filter_month = None \/ MonthOf(d) = Val(filter_month))})
        sum(column) == sum_entries(dict, DOMAIN dict, column)
    IN  totals_dict(sum("worked"), sum("leave"), sum("sick"), sum("training"),
                    sum("public_holiday"), weekdays, get_config(cfg_table))

\* _get_week_totals: the totals of the week's stored entries and the hours
\* of its Mon-Fri days, both restricted to filter_month when it is given
_get_week_totals(table, cfg_table, week_start, week_end, filter_month) ==
    LET dict == entries_dict(get_entries_range(table, week_start, week_end))
        weekdays == Cardinality({d \in week_start..week_end :
                        /\ weekday(d) < 5
                        /\ (filter_month = None \/ MonthOf(d) = Val(filter_month))})
        counted == {d \in DOMAIN dict :
                        filter_month = None \/ MonthOf(d) = Val(filter_month)}
        sum(column) == sum_entries(dict, counted, column)
    IN  totals_dict(sum("worked"), sum("leave"), sum("sick"), sum("training"),
                    sum("public_holiday"), weekdays, get_config(cfg_table))

\* _get_month_totals: the totals of the month's stored entries and the
\* hours of its Mon-Fri days
_get_month_totals(table, cfg_table, year, month) ==
    LET dict == entries_dict(get_month_entries(table, year, month))
        first_day == Date(year, month, 1)
        last_day == Date(year, month, DaysInMonth(year, month))
        weekdays == Cardinality({d \in first_day..last_day : weekday(d) < 5})
        sum(column) == sum_entries(dict, DOMAIN dict, column)
    IN  totals_dict(sum("worked"), sum("leave"), sum("sick"), sum("training"),
                    sum("public_holiday"), weekdays, get_config(cfg_table))

ZeroTotals ==
    [worked |-> 0, max_hours |-> 0, leave |-> 0, sick |-> 0, training |-> 0,
     public_holiday |-> 0, total |-> 0]

RECURSIVE month_display_totals(_, _, _, _, _)
\* _refresh_month_display: the month totals accumulated over the rows of
\* the weeks i..Len(weeks), each row being the week's totals filtered to
\* current_month
month_display_totals(table, cfg_table, weeks, current_month, i) ==
    IF i > Len(weeks) THEN ZeroTotals
    ELSE LET totals == _get_week_totals(table, cfg_table, weeks[i][1], weeks[i][2],
                                        Some(current_month))
             rest == month_display_totals(table, cfg_table, weeks, current_month, i + 1)
         IN  [column \in DOMAIN ZeroTotals |-> totals[column] + rest[column]]

\* the months asked for: two that share the week 31 Oct - 6 Nov 2026 and
\* two that share the week 26 Dec 2026 - 1 Jan 2027
TotalsMonths == {<<2026, 10>>, <<2026, 11>>, <<2026, 12>>, <<2027, 1>>}

\* the dates entries are saved on: the Friday before and the Monday of the
\* first shared week, and the Friday of the second
TotalsDates == {Date(2026, 10, 30), Date(2026, 11, 2), Date(2027, 1, 1)}

\* a morning worked and the afternoon taken as leave
HalfLeaveDay(d) ==
    TimeEntry(d, DayName(d), Some(Time(9, 0)), None, Some(Time(13, 0)),
              Some(Hours(3) + Minutes(30)), Some("L"), None)

SickDay(d) ==
    TimeEntry(d, DayName(d), None, None, None, Some(Hours(7) + Minutes(30)),
              Some("S"), None)

\* an hour and twenty minutes of training after a day worked
TrainingDay(d) ==
    TimeEntry(d, DayName(d), Some(Time(9, 0)), Some(Minutes(30)), Some(Time(17, 30)),
              Some(Minutes(80)), Some("T"), Some(Course))

TotalsSamples(d) ==
    {HalfLeaveDay(d), SickDay(d), TrainingDay(d), HolidayEntry(Holiday(d, BankHoliday), 750)}

CallSaveTotalsEntry ==
    /\ \E d \in TotalsDates : \E entry \in TotalsSamples(d) :
          /\ time_entries' = save_entry(time_entries, entry)
          /\ st_call' = [fn |-> "save_entry", entry |-> entry]
    /\ UNCHANGED <<pureVars, config, tickets, ticket_allocations, appVars>>

CallGetWeekTotals ==
    /\ \E ym \in TotalsMonths :
       \E i \in 1..Len(get_weeks_in_month(ym[1], ym[2])) :
       \E filter_month \in {None, Some(ym[2])} :
          LET week == get_weeks_in_month(ym[1], ym[2])[i]
          IN  st_call' = [fn |-> "_get_week_totals", week_start |-> week[1],
                          week_end |-> week[2], filter_month |-> filter_month,
                          ret |-> _get_week_totals(time_entries, config, week[1],
                                                   week[2], filter_month)]
    /\ UNCHANGED <<pureVars, config, time_entries, tickets, ticket_allocations, appVars>>

CallGetMonthTotals ==
    /\ \E ym \in TotalsMonths :
          st_call' = [fn |-> "_get_month_totals", year |-> ym[1], month |-> ym[2],
                      ret |-> _get_month_totals(time_entries, config, ym[1], ym[2])]
    /\ UNCHANGED <<pureVars, config, time_entries, tickets, ticket_allocations, appVars>>

\* the month view of (year, month) is drawn: weeks is get_weeks_in_month
CallRefreshMonthDisplay ==
    /\ \E ym \in TotalsMonths :
          st_call' = [fn |-> "_refresh_month_display", year |-> ym[1], month |-> ym[2],
                      ret |-> month_display_totals(time_entries, config,
                                  get_weeks_in_month(ym[1], ym[2]), ym[2], 1)]
    /\ UNCHANGED <<pureVars, config, time_entries, tickets, ticket_allocations, appVars>>

\* the store of a new database, or one whose standard day is eight hours
InitTotals ==
    /\ cal_call = NoCall
    /\ hrs_entry = None
    /\ hrs_call = NoCall
    /\ config \in {EmptyTable,
                    save_config(EmptyTable, [DefaultConfig EXCEPT !.standard_day_hours = 800])}
    /\ time_entries = EmptyTable
    /\ st_call = NoCall
    /\ tickets = EmptyTable
    /\ ticket_allocations = EmptyTable
    /\ AppNotRunning

NextTotals ==
    \/ CallSaveTotalsEntry
    \/ CallGetWeekTotals
    \/ CallGetMonthTotals
    \/ CallRefreshMonthDisplay

SpecTotals == InitTotals /\ [][NextTotals]_vars

(* C29: for every (year, month) and every store content, the per-week       *)
(* totals _get_week_totals(week, filter_month = month) summed over          *)
(* get_weeks_in_month(year, month) give the same worked, leave, sick,       *)
(* training, public-holiday, total and max-hours values as                  *)
(* _get_month_totals(year, month), and max hours is the number of Mon-Fri   *)
(* days of the month times the standard day hours, less the public-holiday  *)
(* hours.                                                                   *)
C29_MonthAndYearViewAgree ==
    \A ym \in TotalsMonths :
        LET by_week == month_display_totals(time_entries, config,
                            get_weeks_in_month(ym[1], ym[2]), ym[2], 1)
            by_month == _get_month_totals(time_entries, config, ym[1], ym[2])
        IN  /\ by_week = by_month
            /\ by_month.max_hours
                 = Cardinality({d \in MonthDates(ym[1], ym[2]) : weekday(d) < 5})
                     * get_config(config).standard_day_hours
                   - by_month.public_holiday

\* the month view of October 2026 has been drawn over a store with worked
\* hours, leave and a public holiday in October and an entry on 2 November,
\* in the last week of October's list
C29_Witness ==
    /\ st_call.fn = "_refresh_month_display"
    /\ st_call.year = 2026 /\ st_call.month = 10
    /\ st_call.ret.worked > 0
    /\ st_call.ret.max_hours > 0
    /\ st_call.ret.total > st_call.ret.worked
    /\ get_entry(time_entries, Date(2026, 11, 2)) # None
    /\ get_entry(time_entries, Date(2027, 1, 1)) # None

====
